---- MODULE Spec2Model ----
(***************************************************************************)
(* Darts League (src/src/App.tsx): the scoring and standings engine.       *)
(*                                                                         *)
(* The engine functions are pure TypeScript functions over plain data.     *)
(* Each is an operator here, computed the way the code computes it (the    *)
(* same loops, in the same order, over the same Maps), and each has an     *)
(* action that calls it on the arguments held in the variables and stores  *)
(* what it returns.                                                        *)
(*                                                                         *)
(* Conventions.                                                            *)
(*  - A player name is a string; "" is the empty name.  Names held by the  *)
(*    application are trimmed: makeInitialState, sanitizeState and every   *)
(*    UI handler store normName(...) of what they are given.               *)
(*  - A JS Map<string, number> is a function whose DOMAIN is the key set.  *)
(*  - An optional argument is a sequence: << >> when it is not passed      *)
(*    (undefined), << v >> when it is passed with value v.                 *)
(*  - Money is counted in euro cents (rebuyEUR 0.5 is 50).                 *)
(***************************************************************************)
EXTENDS Integers, Sequences, FiniteSets, TLC

VARIABLES
    matches,             \* CoreMatch[]  : 1st argument of computePointsFromMatches
    rebuyMatches,        \* RebuyMatch[] : 2nd argument
    seasonSoireeNumber,  \* number?      : 3rd argument, << >> or << n >>
    season,              \* Season?      : 4th argument, << >> or << [players, soirees] >>
    rules,               \* RulesConfig  : 5th argument
    selectedSoireeNumber,\* the App component's selectedSoireeNumber
    poolPlayers,         \* string[]    : 1st argument of poolMatchesFor4
    poolName,            \* "A" | "B"   : 2nd argument of poolMatchesFor4
    now,                 \* Date.now(), counted in UI events since the page was loaded
    before,              \* the season the last UI handler was called on, << >> or << season >>
    input,               \* the arguments and the answers given to the last UI handler
    timers,              \* the currentSoiree of each callback given to setTimeout and not yet run
    called,              \* name of the function that has been called, "" before
    ret,                 \* what that call returned
    again                \* what a second call on the same arguments returned

vars == << matches, rebuyMatches, seasonSoireeNumber, season, rules,
           selectedSoireeNumber, poolPlayers, poolName,
           now, before, input, timers, called, ret, again >>

\* What the engine functions never read or write.
ui == << poolPlayers, poolName, now, before, input, timers >>

args == << matches, rebuyMatches, seasonSoireeNumber, season, rules,
           selectedSoireeNumber, poolPlayers, poolName,
           now, before, input, timers >>

(***************************************************************************)
(* Bounds of the model.                                                    *)
(***************************************************************************)
MaxMatches == 2
MaxRebuys == 2
MaxSoirees == 2

(***************************************************************************)
(* Names.                                                                  *)
(***************************************************************************)
\* The names in the order String.prototype.localeCompare puts them.
NameOrder == << "A", "B", "C", "D", "E" >>

Names == { NameOrder[i] : i \in 1..Len(NameOrder) }

\* const SEASON1_PLAYERS = [...]
SEASON1_PLAYERS ==
    << "ANGEL", "SAMUEL", "MARVIN", "CLÉMENT", "ACHIL", "BAPTISTE", "EMERIC", "JOAO" >>

\* Every name of the model, in the order localeCompare puts them.
Collation ==
    << "A", "ACHIL", "ANGEL", "B", "BAPTISTE", "C", "CLÉMENT", "D", "E",
       "EMERIC", "JOAO", "MARVIN", "SAMUEL" >>

NameRank(n) == CHOOSE i \in 1..Len(Collation) : Collation[i] = n

\* a.localeCompare(b): negative, zero or positive.
localeCompare(a, b) == NameRank(a) - NameRank(b)

\* normName: (s ?? "").toString().trim().  Untrimmed spellings occur only in
\* imported text; the table lists the ones the model uses.
Untrimmed == [ s \in { " ", " A", "B " } |->
                 CASE s = " " -> "" [] s = " A" -> "A" [] s = "B " -> "B" ]

\* What reading past the end of an array gives.
undefined == "undefined"

normName(s) ==
    IF s = undefined THEN ""
    ELSE IF s \in DOMAIN Untrimmed THEN Untrimmed[s] ELSE s

(***************************************************************************)
(* Rules.                                                                  *)
(***************************************************************************)
STANDARD_RULES ==
    [ winPoints |-> 2, smallFinalPoints |-> 1, checkoutBonusPoints |-> 1,
      jackpotPerPlayerEUR |-> 100, rebuyEUR |-> 50,
      rebuyWinPointsS1S2 |-> 2, rebuyFirstWinPointsS3Plus |-> 2,
      rebuyNextWinPointsS3Plus |-> 1,
      defaultPoolFormat |-> 301, defaultFinalFormat |-> 501 ]

FUN_RULES ==
    [ STANDARD_RULES EXCEPT !.winPoints = 1, !.smallFinalPoints = 1,
                            !.checkoutBonusPoints = 0,
                            !.jackpotPerPlayerEUR = 0, !.rebuyEUR = 0 ]

\* A CUSTOM profile (state.system.customRules) whose values all differ.
CustomRules ==
    [ winPoints |-> 5, smallFinalPoints |-> 3, checkoutBonusPoints |-> 2,
      jackpotPerPlayerEUR |-> 200, rebuyEUR |-> 150,
      rebuyWinPointsS1S2 |-> 7, rebuyFirstWinPointsS3Plus |-> 4,
      rebuyNextWinPointsS3Plus |-> 1,
      defaultPoolFormat |-> 501, defaultFinalFormat |-> 301 ]

(***************************************************************************)
(* Arrays and Maps.                                                        *)
(***************************************************************************)
\* The pairs of elements of seq: the domain of a comparator given as a function.
Pairs(seq) == { seq[i] : i \in 1..Len(seq) } \X { seq[i] : i \in 1..Len(seq) }

\* [...seq].sort(cmp): Array.prototype.sort is stable, so the result is the one
\* insertion builds.  cmp[<< x, y >>] > 0 means x goes after y.
SortWith(seq, cmp) ==
    LET Insert(s, x) ==
            LET later == { i \in 1..Len(s) : cmp[<< s[i], x >>] > 0 }
                p == IF later = {} THEN Len(s) + 1
                     ELSE CHOOSE i \in later : \A j \in later : i <= j
            IN  SubSeq(s, 1, p - 1) \o << x >> \o SubSeq(s, p, Len(s))
        sorted[k \in 0..Len(seq)] ==
            IF k = 0 THEN << >> ELSE Insert(sorted[k - 1], seq[k])
    IN  sorted[Len(seq)]

EmptyMap == [ k \in {} |-> 0 ]

\* map.get(key) ?? 0
Get(map, key) == IF key \in DOMAIN map THEN map[key] ELSE 0

\* const add = (map, key, delta) => { if (!key) return; map.set(key, (map.get(key) ?? 0) + delta); }
add(map, key, delta) ==
    IF key = "" THEN map
    ELSE [ k \in DOMAIN map \cup { key } |->
             IF k = key THEN Get(map, key) + delta ELSE map[k] ]

(***************************************************************************)
(* computePointsFromMatches (lines 303-386).                               *)
(***************************************************************************)
\* basePts with the small final forgotten.
basePts_NoSmallFinal(m, r) == r.winPoints

\* const basePts = m.phase === "PFINAL" ? rules.smallFinalPoints : rules.winPoints;
basePts(m, r) == IF m.phase = "PFINAL" THEN r.smallFinalPoints ELSE r.winPoints

\* One iteration of "for (const m of matches)": acc is [pts, wins, bonus].
matchStep(acc, m, r) ==
    LET w == normName(m.winner)
    IN  IF w = "" THEN acc
        ELSE LET pts1 == add(acc.pts, w, basePts(m, r))
                 wins1 == add(acc.wins, w, 1)
             IN  IF m.checkout100
                 THEN [ pts |-> add(pts1, w, r.checkoutBonusPoints),
                        wins |-> wins1,
                        bonus |-> add(acc.bonus, w, 1) ]
                 ELSE [ pts |-> pts1, wins |-> wins1, bonus |-> acc.bonus ]

\* The entries of the Maps of y added to those of x.
summed(x, y) ==
    [ pts |-> [ k \in DOMAIN x.pts \cup DOMAIN y.pts |-> Get(x.pts, k) + Get(y.pts, k) ],
      wins |-> [ k \in DOMAIN x.wins \cup DOMAIN y.wins |-> Get(x.wins, k) + Get(y.wins, k) ],
      bonus |-> [ k \in DOMAIN x.bonus \cup DOMAIN y.bonus |->
                    Get(x.bonus, k) + Get(y.bonus, k) ] ]

\* The three Maps after the loop over matches[lo..hi], started from empty Maps.
\* An iteration only adds to the Maps, so the Maps after a stretch of the list
\* are the sums of the Maps after its two halves.
RECURSIVE matchSpan(_, _, _, _)
matchSpan(ms, lo, hi, r) ==
    IF lo > hi THEN [ pts |-> EmptyMap, wins |-> EmptyMap, bonus |-> EmptyMap ]
    ELSE IF lo = hi
    THEN matchStep([ pts |-> EmptyMap, wins |-> EmptyMap, bonus |-> EmptyMap ], ms[lo], r)
    ELSE summed(matchSpan(ms, lo, (lo + hi) \div 2, r),
                matchSpan(ms, (lo + hi) \div 2 + 1, hi, r))

\* The three Maps after the loop over matches.
matchLoop(ms, r) == matchSpan(ms, 1, Len(ms), r)

\* const soN = Number(seasonSoireeNumber ?? 0);
soNOf(sn) == IF sn = << >> THEN 0 ELSE sn[1]

\* (a, b) => a.number - b.number
numberCmp(a, b) == a.number - b.number

\* One soiree's contribution to priorCompleted: every rebuy with a buyer and a winner.
priorOfSoiree(map, s) ==
    LET after[k \in 0..Len(s.rebuys)] ==
            IF k = 0 THEN map
            ELSE LET rb == s.rebuys[k]
                     buyer == normName(rb.buyer)
                     w == normName(rb.winner)
                 IN  IF buyer = "" \/ w = "" THEN after[k - 1]
                     ELSE add(after[k - 1], buyer, 1)
    IN  after[Len(s.rebuys)]

\* priorCompleted starting every soiree from zero.
priorCompleted_PerSoiree(n, se) == EmptyMap

\* [...season.soirees].sort((a, b) => a.number - b.number)
soireesByNumber(soirees) ==
    SortWith(soirees, [ p \in Pairs(soirees) |-> numberCmp(p[1], p[2]) ])

\* for (const s of soireesAsc) { if (s.number >= soN) break; ... }
priorLoop(soireesAsc, n) ==
    LET after[k \in 0..Len(soireesAsc)] ==
            IF k = 0 THEN [ map |-> EmptyMap, broke |-> FALSE ]
            ELSE IF after[k - 1].broke THEN after[k - 1]
            ELSE IF soireesAsc[k].number >= n
                 THEN [ map |-> after[k - 1].map, broke |-> TRUE ]
                 ELSE [ map |-> priorOfSoiree(after[k - 1].map, soireesAsc[k]),
                        broke |-> FALSE ]
    IN  after[Len(soireesAsc)].map

\* priorCompleted: the decided rebuys of each buyer in the soirees before soN,
\* counted only when soN >= 3 and a season is passed.  The loop runs over the
\* soirees in ascending number and breaks at the first one numbered >= soN.
priorCompleted(n, se) ==
    IF n >= 3 /\ se # << >> THEN priorLoop(soireesByNumber(se[1].soirees), n)
    ELSE EmptyMap

\* (a, b) => (a.createdAt ?? 0) - (b.createdAt ?? 0); createdAt is always a number
\* in a state the application holds.
createdAtCmp(a, b) == a.createdAt - b.createdAt

\* sortedRebuys left in list order.
sortedRebuys_ListOrder(rbs) == rbs

\* const sortedRebuys = [...rebuyMatches].sort(...)
sortedRebuys(rbs) ==
    SortWith(rbs, [ p \in Pairs(rbs) |-> createdAtCmp(p[1], p[2]) ])

\* const winPts = soN >= 3 ? (doneBefore(buyer) === 0 ? first : next) : s1s2
winPts(n, doneBefore, r) ==
    IF n >= 3
    THEN IF doneBefore = 0 THEN r.rebuyFirstWinPointsS3Plus
         ELSE r.rebuyNextWinPointsS3Plus
    ELSE r.rebuyWinPointsS1S2

\* creditBuyer paying whoever won the rebuy.
creditBuyer_AnyWinner(st, buyer, w, p) ==
    [ st EXCEPT !.pts = add(st.pts, w, p), !.wins = add(st.wins, w, 1) ]

\* creditBuyer without the win.
creditBuyer_NoWin(st, buyer, w, p) ==
    IF w = buyer THEN [ st EXCEPT !.pts = add(st.pts, buyer, p) ] ELSE st

\* if (w === buyer) { add(pts, buyer, p); add(wins, buyer, 1); }
creditBuyer(st, buyer, w, p) ==
    IF w = buyer
    THEN [ st EXCEPT !.pts = add(st.pts, buyer, p), !.wins = add(st.wins, buyer, 1) ]
    ELSE st

\* incLocalDone(buyer)
incLocalDone(st, buyer) ==
    [ st EXCEPT !.localCompleted = add(st.localCompleted, buyer, 1) ]

\* One iteration of "for (const r of sortedRebuys)": st is
\* [pts, wins, bonus, localCompleted], prior is priorCompleted.
rebuyStep(st, rb, n, prior, r) ==
    LET buyer == normName(rb.buyer)
        w == normName(rb.winner)
        doneBefore == Get(prior, buyer) + Get(st.localCompleted, buyer)
    IN  IF buyer = "" \/ w = "" THEN st
        ELSE IF n > 0 /\ n <= 2
        THEN incLocalDone(creditBuyer(st, buyer, w, r.rebuyWinPointsS1S2), buyer)
        ELSE incLocalDone(creditBuyer(st, buyer, w, winPts(n, doneBefore, r)), buyer)

\* const localCompleted = new Map<string, number>(), beside the three Maps.
withLocalCompleted(acc) ==
    [ pts |-> acc.pts, wins |-> acc.wins, bonus |-> acc.bonus,
      localCompleted |-> EmptyMap ]

\* for (const r of sortedRebuys) { ... }
rebuyLoop(st0, sorted, n, prior, r) ==
    LET after[k \in 0..Len(sorted)] ==
            IF k = 0 THEN st0 ELSE rebuyStep(after[k - 1], sorted[k], n, prior, r)
    IN  after[Len(sorted)]

\* return { pts, wins, bonus };
returned(st) == [ pts |-> st.pts, wins |-> st.wins, bonus |-> st.bonus ]

computePointsFromMatches(ms, rbs, sn, se, r) ==
    returned(rebuyLoop(withLocalCompleted(matchLoop(ms, r)), sortedRebuys(rbs),
                       soNOf(sn), priorCompleted(soNOf(sn), se), r))

(***************************************************************************)
(* aggregateSeasonStats (lines 388-425), computeJackpotEUR (lines 427-431). *)
(***************************************************************************)
\* for (const [k, v] of m.entries()) add(map, k, v);
addEntries(map, m) ==
    [ k \in DOMAIN map \cup (DOMAIN m \ { "" }) |->
        Get(map, k) + (IF k \in DOMAIN m THEN m[k] ELSE 0) ]

\* if (!map.has(pl)) map.set(pl, 0), for every pl of players.
withPlayers(map, players) ==
    [ k \in DOMAIN map \cup { players[i] : i \in 1..Len(players) } |-> Get(map, k) ]

\* tableCmp with the names in descending order.
tableCmp_NameDescending(a, b) ==
    IF b.pts # a.pts THEN b.pts - a.pts
    ELSE IF b.wins # a.wins THEN b.wins - a.wins
    ELSE localeCompare(b.name, a.name)

\* The comparator of table.sort: points, then wins, then name.
tableCmp(a, b) ==
    IF b.pts # a.pts THEN b.pts - a.pts
    ELSE IF b.wins # a.wins THEN b.wins - a.wins
    ELSE localeCompare(a.name, b.name)

\* One iteration of "for (const s of season.soirees)": c is what
\* computePointsFromMatches returned for s.
addSoiree(acc, c) ==
    [ pts |-> addEntries(acc.pts, c.pts),
      wins |-> addEntries(acc.wins, c.wins),
      bonus |-> addEntries(acc.bonus, c.bonus) ]

\* The three Maps after the loop over the soirees.
soireeLoop(se, r) ==
    LET after[k \in 0..Len(se.soirees)] ==
            IF k = 0 THEN [ pts |-> EmptyMap, wins |-> EmptyMap, bonus |-> EmptyMap ]
            ELSE addSoiree(after[k - 1],
                           computePointsFromMatches(se.soirees[k].matches,
                                                    se.soirees[k].rebuys,
                                                    << se.soirees[k].number >>,
                                                    << se >>, r))
    IN  after[Len(se.soirees)]

\* The three Maps after the loop over season.players.
playerLoop(acc, players) ==
    [ pts |-> withPlayers(acc.pts, players),
      wins |-> withPlayers(acc.wins, players),
      bonus |-> withPlayers(acc.bonus, players) ]

\* season.players.map((name) => ({ name, pts, wins, bonus }))
tableOf(acc, players) ==
    [ i \in 1..Len(players) |->
        [ name |-> players[i],
          pts |-> Get(acc.pts, players[i]),
          wins |-> Get(acc.wins, players[i]),
          bonus |-> Get(acc.bonus, players[i]) ] ]

\* table.sort(...)
sortTable(table) ==
    SortWith(table, [ p \in Pairs(table) |-> tableCmp(p[1], p[2]) ])

\* return { table, pts, wins, bonus };
statsOf(acc, players) ==
    [ table |-> sortTable(tableOf(acc, players)),
      pts |-> acc.pts, wins |-> acc.wins, bonus |-> acc.bonus ]

aggregateSeasonStats(se, r) ==
    statsOf(playerLoop(soireeLoop(se, r), se.players), se.players)

\* rebuyCount counting only the rebuys that have a winner.
rebuyCount_DecidedOnly(se) ==
    LET sum[k \in 0..Len(se.soirees)] ==
            IF k = 0 THEN 0
            ELSE sum[k - 1]
                 + Cardinality({ j \in 1..Len(se.soirees[k].rebuys) :
                                   se.soirees[k].rebuys[j].winner # "" })
    IN  sum[Len(se.soirees)]

\* season.soirees.reduce((sum, s) => sum + s.rebuys.length, 0)
rebuyCount(se) ==
    LET sum[k \in 0..Len(se.soirees)] ==
            IF k = 0 THEN 0 ELSE sum[k - 1] + Len(se.soirees[k].rebuys)
    IN  sum[Len(se.soirees)]

\* season.soirees.reduce((sum, s) => sum + s.pools.A.length + s.pools.B.length, 0)
jackpotBase(se) ==
    LET sum[k \in 0..Len(se.soirees)] ==
            IF k = 0 THEN 0
            ELSE sum[k - 1] + Len(se.soirees[k].pools.A) + Len(se.soirees[k].pools.B)
    IN  sum[Len(se.soirees)]

computeJackpotEUR(se, r) ==
    jackpotBase(se) * r.jackpotPerPlayerEUR + rebuyCount(se) * r.rebuyEUR

(***************************************************************************)
(* Data the calls are made on.                                             *)
(***************************************************************************)
Phases == { "POULE", "DEMI", "PFINAL", "FINAL" }

\* A CoreMatch (id, format, bo and maxTurns are descriptive and left out).
CoreMatch(order, phase, pool, a, b, winner, checkout100) ==
    [ order |-> order, phase |-> phase,
      status |-> IF winner # "" THEN "VALIDATED" ELSE "PENDING",
      pool |-> pool, a |-> a, b |-> b, winner |-> winner,
      checkout100 |-> checkout100 ]

\* A RebuyMatch (the id is left out: rebuys are told apart by position).
RebuyMatch(buyer, a, b, winner, createdAt) ==
    [ buyer |-> buyer, a |-> a, b |-> b, winner |-> winner, createdAt |-> createdAt ]

\* The sequences of length at most n over S.
SeqsUpTo(S, n) == UNION { [ 1..k -> S ] : k \in 0..n }

\* A match list as the application holds it: order is the position.
Ordered(ms) == [ i \in 1..Len(ms) |-> [ ms[i] EXCEPT !.order = i ] ]

(***************************************************************************)
(* Calls of computePointsFromMatches.                                      *)
(***************************************************************************)
NoReturn == << >>

Roster == << "B", "A", "C" >>

\* Matches between A and B, and one whose recorded winner C is neither contestant
\* (sanitizeState keeps such a winner).
MatchKinds ==
    { CoreMatch(0, ph, IF ph = "POULE" THEN "A" ELSE "null", "A", "B", w, c) :
        ph \in Phases, w \in { "", "A", "B" }, c \in BOOLEAN }
    \cup { CoreMatch(0, "POULE", "A", "A", "B", "C", TRUE) }

\* Rebuys between A and B: bought by A or B, or won by A with no buyer recorded.
RebuyKinds ==
    { RebuyMatch(buyer, "A", "B", w, t) :
        buyer \in { "A", "B" }, w \in { "", "A", "B" }, t \in 1..MaxRebuys }
    \cup { RebuyMatch("", "A", "B", "A", t) : t \in 1..MaxRebuys }

\* A soiree of the season argument, as far as computePointsFromMatches reads it.
SoireeOf(number, rbs) ==
    [ number |-> number, pools |-> [ A |-> << >>, B |-> << >> ],
      matches |-> << >>, rebuys |-> rbs, qualifiersOverride |-> << >> ]

SeasonOf(soirees) == [ players |-> Roster, soirees |-> soirees ]

\* Family 1: any match list, alone or beside a rebuy of soiree 3.
InitMatchCalls ==
    /\ matches \in { Ordered(ms) : ms \in SeqsUpTo(MatchKinds, MaxMatches) }
    /\ \E ctx \in { << << >>, << >>, << >> >>,
                    << << RebuyMatch("A", "A", "B", "A", 1) >>, << 3 >>,
                       << SeasonOf(<< >>) >> >> } :
           /\ rebuyMatches = ctx[1]
           /\ seasonSoireeNumber = ctx[2]
           /\ season = ctx[3]
    /\ rules \in { STANDARD_RULES, FUN_RULES, CustomRules }
    /\ selectedSoireeNumber = 0
    /\ poolPlayers = << >>
    /\ poolName = "A"
    /\ now = 0
    /\ before = << >>
    /\ input = << >>
    /\ timers = << >>
    /\ called = ""
    /\ ret = NoReturn
    /\ again = NoReturn

\* Family 2: any rebuy list, for any soiree number, with or without a season.
InitRebuyCalls ==
    /\ matches = << CoreMatch(1, "FINAL", "null", "A", "B", "A", TRUE) >>
    /\ rebuyMatches \in SeqsUpTo(RebuyKinds, MaxRebuys)
    /\ seasonSoireeNumber \in { << >> } \cup { << n >> : n \in 0..3 }
    /\ season \in { << >>,
                    << SeasonOf(<< SoireeOf(2, << RebuyMatch("B", "A", "B", "A", 1) >>) >>) >> }
    /\ rules \in { STANDARD_RULES, CustomRules }
    /\ selectedSoireeNumber = 0
    /\ poolPlayers = << >>
    /\ poolName = "A"
    /\ now = 0
    /\ before = << >>
    /\ input = << >>
    /\ timers = << >>
    /\ called = ""
    /\ ret = NoReturn
    /\ again = NoReturn

\* The soirees of a season, as far as the rebuy rule reads them: a number and the
\* rebuys played there.
PriorSoireeKinds ==
    { SoireeOf(n, rbs) :
        n \in 1..4,
        rbs \in { << >>,
                  << RebuyMatch("A", "A", "B", "B", 1) >>,
                  << RebuyMatch("A", "A", "B", "", 1) >>,
                  << RebuyMatch("B", "B", "A", "B", 1), RebuyMatch("A", "A", "B", "A", 2) >> } }

\* Family 3: any season (soirees in any order), with rebuys won by their buyers.
InitSeasonCalls ==
    /\ matches = << >>
    /\ rebuyMatches \in { << RebuyMatch("A", "A", "B", "A", 1) >>,
                          << RebuyMatch("B", "B", "A", "B", 1) >>,
                          << RebuyMatch("A", "A", "B", "A", 1),
                             RebuyMatch("A", "A", "B", "A", 1) >> }
    /\ seasonSoireeNumber \in { << 2 >>, << 3 >>, << 4 >> }
    /\ season \in { << SeasonOf(ss) >> : ss \in SeqsUpTo(PriorSoireeKinds, MaxSoirees) }
    /\ rules = CustomRules
    /\ selectedSoireeNumber = 0
    /\ poolPlayers = << >>
    /\ poolName = "A"
    /\ now = 0
    /\ before = << >>
    /\ input = << >>
    /\ timers = << >>
    /\ called = ""
    /\ ret = NoReturn
    /\ again = NoReturn

InitPoints == InitMatchCalls \/ InitRebuyCalls \/ InitSeasonCalls

\* arr.sort(cmp) on the array itself: the caller's array ends up sorted.
afterSortInPlace(arr, sorted) == sorted

\* [...arr].sort(cmp): the sort reorders the copy made by the spread, the array
\* that was passed in keeps its order (lines 338 and 350).
afterSortOfCopy(arr, sorted) == arr

\* The rebuy list as a call of computePointsFromMatches leaves it (line 350).
rebuysAfterCall(rbs) == afterSortOfCopy(rbs, sortedRebuys(rbs))

\* The season argument as the call leaves it: line 338 runs only when soN >= 3 and
\* a season is passed.
seasonAfterCall(sn, se) ==
    IF soNOf(sn) >= 3 /\ se # << >>
    THEN << [ se[1] EXCEPT !.soirees = afterSortOfCopy(@, soireesByNumber(@)) ] >>
    ELSE se

\* The season as the k-th iteration of the loop of aggregateSeasonStats leaves it:
\* a call of computePointsFromMatches(s.matches, s.rebuys, s.number, season, rules).
seasonAfterSoiree(se, k) ==
    seasonAfterCall(<< se.soirees[k].number >>,
                    << [ se EXCEPT !.soirees[k].rebuys = rebuysAfterCall(@) ] >>)[1]

\* The season as aggregateSeasonStats leaves it (table.sort at line 418 sorts an
\* array the function has built).
seasonAfterAggregate(se) ==
    LET after[k \in 0..Len(se.soirees)] ==
            IF k = 0 THEN se ELSE seasonAfterSoiree(after[k - 1], k)
    IN  after[Len(se.soirees)]

CallComputePointsFromMatches ==
    /\ called = ""
    /\ called' = "computePointsFromMatches"
    /\ ret' = computePointsFromMatches(matches, rebuyMatches, seasonSoireeNumber,
                                       season, rules)
    /\ rebuyMatches' = rebuysAfterCall(rebuyMatches)
    /\ season' = seasonAfterCall(seasonSoireeNumber, season)
    /\ UNCHANGED << matches, seasonSoireeNumber, rules, selectedSoireeNumber, again, ui >>

NextPoints == CallComputePointsFromMatches

SpecPoints == InitPoints /\ [][NextPoints]_vars

(***************************************************************************)
(* The podium of a soiree: currentSoiree (lines 1061-1063), currentPodium  *)
(* (lines 1605-1640), podiumFromSoiree and totalGainsEUR (lines 1643-1679). *)
(***************************************************************************)
MONEY == [ entryFeeEUR |-> 300,
           podiumEUR |-> [ first |-> 700, second |-> 300, third |-> 200 ] ]

\* state.season.soirees.find((s) => s.number === selectedSoireeNumber)
\*   ?? state.season.soirees[0]
currentSoiree(se, sel) ==
    LET hits == { k \in 1..Len(se.soirees) : se.soirees[k].number = sel }
    IN  IF hits = { } THEN se.soirees[1]
        ELSE se.soirees[CHOOSE k \in hits : \A j \in hits : k <= j]

\* matches.find((m) => m.phase === ph): << >> when there is none.
findPhase(ms, ph) ==
    LET hits == { k \in 1..Len(ms) : ms[k].phase = ph }
    IN  IF hits = { } THEN << >>
        ELSE << ms[CHOOSE k \in hits : \A j \in hits : k <= j] >>

\* normName(m?.field ?? "") for the three fields the podium reads.
winnerOf(found) == IF found = << >> THEN "" ELSE normName(found[1].winner)
aOf(found) == IF found = << >> THEN "" ELSE normName(found[1].a)
bOf(found) == IF found = << >> THEN "" ELSE normName(found[1].b)

\* second: the finalist who did not win, when the recorded winner is a finalist.
secondOf(wFinal, aFinal, bFinal) ==
    IF wFinal # "" /\ (wFinal = aFinal \/ wFinal = bFinal)
    THEN (IF wFinal = aFinal THEN bFinal ELSE aFinal)
    ELSE ""

\* rows.sort((a, b) => b.pts - a.pts || b.wins - a.wins || a.name.localeCompare(b.name))
podiumCmp(a, b) ==
    IF b.pts - a.pts # 0 THEN b.pts - a.pts
    ELSE IF b.wins - a.wins # 0 THEN b.wins - a.wins
    ELSE localeCompare(a.name, b.name)

\* state.season.players.map((p) => ({ name: p, pts: pts.get(p) ?? 0, wins: ... }))
rowsOf(c, players) ==
    [ i \in 1..Len(players) |->
        [ name |-> players[i],
          pts |-> Get(c.pts, players[i]),
          wins |-> Get(c.wins, players[i]) ] ]

\* rows.sort(...)
sortRows(rows) == SortWith(rows, [ p \in Pairs(rows) |-> podiumCmp(p[1], p[2]) ])

\* The rows of the provisional podium: the roster ranked on the soiree's matches
\* alone (the rebuy list passed is empty).
provisionalRows(s, se, r) ==
    sortRows(rowsOf(computePointsFromMatches(s.matches, << >>, << s.number >>,
                                             << se >>, r),
                    se.players))

\* rows[i]?.name ?? ""  (i counted from 1)
rowName(rows, i) == IF i <= Len(rows) THEN rows[i].name ELSE ""

\* if (!wFinal || !second || !third) { ...rows... provisional: true }
\* else { first: wFinal, second, third, provisional: false }
podiumOf(wFinal, second, third, rows) ==
    IF wFinal = "" \/ second = "" \/ third = ""
    THEN [ first |-> rowName(rows, 1), second |-> rowName(rows, 2),
           third |-> rowName(rows, 3), provisional |-> TRUE ]
    ELSE [ first |-> wFinal, second |-> second, third |-> third,
           provisional |-> FALSE ]

\* The podium read off a FINAL and a PFINAL (<< >> when the soiree has none).
podiumOfFinals(final, pfinal, rows) ==
    podiumOf(winnerOf(final), secondOf(winnerOf(final), aOf(final), bOf(final)),
             winnerOf(pfinal), rows)

\* currentPodium for the soiree cur = currentSoiree.
podiumOfSoiree(cur, se, r) ==
    podiumOfFinals(findPhase(cur.matches, "FINAL"), findPhase(cur.matches, "PFINAL"),
                   provisionalRows(cur, se, r))

currentPodium(se, sel, r) == podiumOfSoiree(currentSoiree(se, sel), se, r)

\* return { first, second, third } on both branches: no provisional flag.
withoutFlag(p) == [ first |-> p.first, second |-> p.second, third |-> p.third ]

podiumFromSoiree(s, se, r) == withoutFlag(podiumOfSoiree(s, se, r))

\* if (name) totals.set(name, (totals.get(name) ?? 0) + eur)
addGain(totals, name, eur) ==
    IF name = "" THEN totals
    ELSE [ k \in DOMAIN totals \cup { name } |->
             IF k = name THEN Get(totals, name) + eur ELSE totals[k] ]

\* The three payouts of one soiree's podium p.
addPodium(totals, p) ==
    addGain(addGain(addGain(totals, p.first, MONEY.podiumEUR.first),
                    p.second, MONEY.podiumEUR.second),
            p.third, MONEY.podiumEUR.third)

\* for (const s of state.season.soirees) { ... }
gainsLoop(se, r) ==
    LET after[k \in 0..Len(se.soirees)] ==
            IF k = 0 THEN withPlayers(EmptyMap, se.players)
            ELSE addPodium(after[k - 1], podiumFromSoiree(se.soirees[k], se, r))
    IN  after[Len(se.soirees)]

\* out.sort((a, b) => b.eur - a.eur || a.player.localeCompare(b.player))
gainsCmp(a, b) ==
    IF b.eur - a.eur # 0 THEN b.eur - a.eur ELSE localeCompare(a.player, b.player)

sortGains(out) == SortWith(out, [ p \in Pairs(out) |-> gainsCmp(p[1], p[2]) ])

\* state.season.players.map((p) => ({ player: p, eur: totals.get(p) ?? 0 }))
gainsOf(totals, players) ==
    [ i \in 1..Len(players) |-> [ player |-> players[i], eur |-> Get(totals, players[i]) ] ]

totalGainsEUR(se, r) == sortGains(gainsOf(gainsLoop(se, r), se.players))

(***************************************************************************)
(* Calls of the season functions.                                          *)
(***************************************************************************)
Soiree(number, poolA, poolB, ms, rbs) ==
    [ number |-> number, pools |-> [ A |-> poolA, B |-> poolB ],
      matches |-> ms, rebuys |-> rbs, qualifiersOverride |-> << >> ]

Season(players, soirees) == [ players |-> players, soirees |-> soirees ]

\* What is played in a soiree: pools of any sizes, matches and rebuys.
\* Under STANDARD_RULES the fourth gives A 2 points for 2 wins and B 2 points for
\* 1 win.
SoireeContents ==
    { << << >>, << >>, << >>, << >> >>,
      << << "A", "B" >>, << "C" >>,
         << CoreMatch(1, "POULE", "A", "A", "B", "B", FALSE) >>,
         << RebuyMatch("A", "A", "B", "A", 1) >> >>,
      << << "A", "B", "C", "D" >>, << "E" >>,
         << CoreMatch(1, "PFINAL", "null", "A", "C", "A", TRUE),
            CoreMatch(2, "POULE", "B", "C", "D", "C", FALSE) >>,
         << RebuyMatch("A", "A", "B", "", 1), RebuyMatch("B", "B", "A", "B", 2) >> >>,
      << << "A", "B" >>, << "C" >>,
         << CoreMatch(1, "PFINAL", "null", "A", "B", "A", FALSE),
            CoreMatch(2, "PFINAL", "null", "A", "B", "A", FALSE),
            CoreMatch(3, "POULE", "A", "A", "B", "B", FALSE) >>,
         << >> >>,
      << << >>, << >>,
         << CoreMatch(1, "FINAL", "null", "D", "E", "E", TRUE) >>,
         << RebuyMatch("B", "B", "A", "A", 1), RebuyMatch("A", "A", "B", "A", 2) >> >>,
      << << "A", "B", "C", "D" >>, << "E" >>, << >>,
         << RebuyMatch("C", "C", "A", "C", 1) >> >> }

SeasonSoireeKinds ==
    { Soiree(n, c[1], c[2], c[3], c[4]) : n \in 1..3, c \in SoireeContents }

Rosters == { << "B", "A", "C" >>, << "D", "C", "A", "B" >>, << >> }

InitSeason ==
    /\ matches = << >>
    /\ rebuyMatches = << >>
    /\ seasonSoireeNumber = << >>
    /\ season \in { << Season(pl, ss) >> :
                      pl \in Rosters, ss \in SeqsUpTo(SeasonSoireeKinds, MaxSoirees) }
    /\ rules \in { STANDARD_RULES, CustomRules }
    /\ selectedSoireeNumber = 0
    /\ poolPlayers = << >>
    /\ poolName = "A"
    /\ now = 0
    /\ before = << >>
    /\ input = << >>
    /\ timers = << >>
    /\ called = ""
    /\ ret = NoReturn
    /\ again = NoReturn

CallAggregateSeasonStats ==
    /\ called = ""
    /\ season # << >>
    /\ called' = "aggregateSeasonStats"
    /\ ret' = aggregateSeasonStats(season[1], rules)
    /\ season' = << seasonAfterAggregate(season[1]) >>
    /\ UNCHANGED << matches, rebuyMatches, seasonSoireeNumber, rules,
                    selectedSoireeNumber, again, ui >>

CallComputeJackpotEUR ==
    /\ called = ""
    /\ season # << >>
    /\ called' = "computeJackpotEUR"
    /\ ret' = computeJackpotEUR(season[1], rules)
    /\ UNCHANGED << args, again >>

NextSeason == CallAggregateSeasonStats \/ CallComputeJackpotEUR

SpecSeason == InitSeason /\ [][NextSeason]_vars

(***************************************************************************)
(* Two calls in a row on the same arguments.                               *)
(*                                                                         *)
(* Lines 303-425 read nothing but their parameters: no module-level        *)
(* variable, no Date.now, Math.random or uid.  The only state a call could *)
(* change is therefore the arguments themselves, through the two sorts of  *)
(* lines 338 and 350; the actions below write back what those lines leave  *)
(* in the arrays that were passed.                                         *)
(***************************************************************************)
TwiceRebuyKinds == { RebuyMatch("A", "A", "B", "A", t) : t \in 1..MaxRebuys }

TwiceSoireeKinds ==
    { SoireeOf(n, rbs) :
        n \in 1..3,
        rbs \in { << >>,
                  << RebuyMatch("B", "B", "A", "B", 2), RebuyMatch("A", "A", "B", "A", 1) >> } }

InitTwice ==
    /\ matches = << CoreMatch(1, "FINAL", "null", "A", "B", "A", TRUE) >>
    /\ rebuyMatches \in SeqsUpTo(TwiceRebuyKinds, MaxRebuys)
    /\ seasonSoireeNumber \in { << >>, << 3 >> }
    /\ season \in { << >> }
                  \cup { << SeasonOf(ss) >> : ss \in SeqsUpTo(TwiceSoireeKinds, MaxSoirees) }
    /\ rules = STANDARD_RULES
    /\ selectedSoireeNumber = 0
    /\ poolPlayers = << >>
    /\ poolName = "A"
    /\ now = 0
    /\ before = << >>
    /\ input = << >>
    /\ timers = << >>
    /\ called = ""
    /\ ret = NoReturn
    /\ again = NoReturn

CallComputePointsFromMatchesAgain ==
    /\ called = "computePointsFromMatches"
    /\ called' = "computePointsFromMatches twice"
    /\ again' = computePointsFromMatches(matches, rebuyMatches, seasonSoireeNumber,
                                         season, rules)
    /\ rebuyMatches' = rebuysAfterCall(rebuyMatches)
    /\ season' = seasonAfterCall(seasonSoireeNumber, season)
    /\ UNCHANGED << matches, seasonSoireeNumber, rules, selectedSoireeNumber, ret, ui >>

CallAggregateSeasonStatsAgain ==
    /\ called = "aggregateSeasonStats"
    /\ called' = "aggregateSeasonStats twice"
    /\ again' = aggregateSeasonStats(season[1], rules)
    /\ season' = << seasonAfterAggregate(season[1]) >>
    /\ UNCHANGED << matches, rebuyMatches, seasonSoireeNumber, rules,
                    selectedSoireeNumber, ret, ui >>

NextTwice ==
    \/ CallComputePointsFromMatches
    \/ CallComputePointsFromMatchesAgain
    \/ CallAggregateSeasonStats
    \/ CallAggregateSeasonStatsAgain

SpecTwice == InitTwice /\ [][NextTwice]_vars

(***************************************************************************)
(* Calls of the podium functions.                                          *)
(***************************************************************************)
\* The FINAL of a soiree: none, undecided, won by a finalist, won by somebody who
\* is not a finalist, won with the other finalist missing, or without finalists.
FinalKinds ==
    { << >> }
    \cup { << CoreMatch(0, "FINAL", "null", "A", "B", w, FALSE) >> :
             w \in { "", "A", "B", "C" } }
    \cup { << CoreMatch(0, "FINAL", "null", "A", "", "A", FALSE) >>,
           << CoreMatch(0, "FINAL", "null", "", "", "", FALSE) >> }

\* The PFINAL of a soiree, likewise.
PFinalKinds ==
    { << >> }
    \cup { << CoreMatch(0, "PFINAL", "null", "C", "D", w, FALSE) >> :
             w \in { "", "C", "D", "E" } }

PoolPlay ==
    { << >>,
      << CoreMatch(0, "POULE", "A", "A", "B", "B", FALSE) >>,
      << CoreMatch(0, "POULE", "B", "C", "D", "C", TRUE),
         CoreMatch(0, "POULE", "A", "A", "B", "B", FALSE) >> }

PodiumMatchLists ==
    { Ordered(pp \o f \o pf) : pp \in PoolPlay, f \in FinalKinds, pf \in PFinalKinds }
    \cup { Ordered(pf \o f) : f \in FinalKinds, pf \in PFinalKinds }

\* A soiree of the season next to the one under study: its bracket is decided.
OtherSoiree ==
    Soiree(2, << >>, << >>,
           << CoreMatch(1, "PFINAL", "null", "A", "B", "B", FALSE),
              CoreMatch(2, "FINAL", "null", "C", "D", "D", FALSE) >>,
           << >>)

PodiumRosters == { << "B", "A", "C", "D" >>, << "B", "A" >>, << "E", "D", "C", "B", "A" >> }

InitPodium ==
    /\ matches = << >>
    /\ rebuyMatches = << >>
    /\ seasonSoireeNumber = << >>
    /\ \E ms \in PodiumMatchLists, pl \in PodiumRosters :
           LET s == Soiree(1, << >>, << >>, ms, << >>)
           IN  season \in { << Season(pl, ss) >> :
                              ss \in { << s >>, << s, OtherSoiree >>, << OtherSoiree, s >> } }
    /\ rules = STANDARD_RULES
    /\ selectedSoireeNumber \in { 0, 1, 2 }
    /\ poolPlayers = << >>
    /\ poolName = "A"
    /\ now = 0
    /\ before = << >>
    /\ input = << >>
    /\ timers = << >>
    /\ called = ""
    /\ ret = NoReturn
    /\ again = NoReturn

CallCurrentPodium ==
    /\ called = ""
    /\ season # << >>
    /\ called' = "currentPodium"
    /\ ret' = currentPodium(season[1], selectedSoireeNumber, rules)
    /\ UNCHANGED << args, again >>

CallTotalGainsEUR ==
    /\ called = ""
    /\ season # << >>
    /\ called' = "totalGainsEUR"
    /\ ret' = totalGainsEUR(season[1], rules)
    /\ UNCHANGED << args, again >>

NextPodium == CallCurrentPodium \/ CallTotalGainsEUR

SpecPodium == InitPodium /\ [][NextPodium]_vars

(***************************************************************************)
(* Claims about computePointsFromMatches.                                  *)
(***************************************************************************)
\* seq without its i-th element.
RemoveAt(seq, i) == SubSeq(seq, 1, i - 1) \o SubSeq(seq, i + 1, Len(seq))

PointsCalled == called = "computePointsFromMatches"

\* What the claims say a decided match is worth to its winner.
ClaimedMatchPoints(m, r) ==
    (IF m.phase = "PFINAL" THEN r.smallFinalPoints ELSE r.winPoints)
    + (IF m.checkout100 THEN r.checkoutBonusPoints ELSE 0)

\* C1: each match with a non-empty winner is credited to exactly one player, the
\* recorded winner: compared with the same call without that match, the winner has
\* one more win, rules.winPoints more points (rules.smallFinalPoints for a PFINAL),
\* plus rules.checkoutBonusPoints and one more bonus when checkout100 is set, and
\* nobody else's points, wins or bonus differ; a match with an empty winner changes
\* nothing at all.
C1_MatchCreditsWinnerOnly ==
    PointsCalled =>
        \A i \in 1..Len(matches) :
            LET m == matches[i]
                without == computePointsFromMatches(RemoveAt(matches, i), rebuyMatches,
                                                    seasonSoireeNumber, season, rules)
            IN  /\ m.winner = "" => ret = without
                /\ \A p \in Names :
                       LET won == m.winner # "" /\ p = m.winner
                       IN  /\ Get(ret.pts, p) - Get(without.pts, p)
                                = IF won THEN ClaimedMatchPoints(m, rules) ELSE 0
                           /\ Get(ret.wins, p) - Get(without.wins, p)
                                = IF won THEN 1 ELSE 0
                           /\ Get(ret.bonus, p) - Get(without.bonus, p)
                                = IF won /\ m.checkout100 THEN 1 ELSE 0

\* C1's case: a small final won by A with a checkout, next to a match won by B.
C1_Witness ==
    /\ PointsCalled
    /\ rules = CustomRules
    /\ Len(matches) = 2
    /\ matches[1].phase = "PFINAL" /\ matches[1].winner = "A" /\ matches[1].checkout100
    /\ matches[2].phase = "POULE" /\ matches[2].winner = "B" /\ ~matches[2].checkout100
    /\ rebuyMatches = << >>
    /\ Get(ret.pts, "A") = 5 /\ Get(ret.wins, "A") = 1 /\ Get(ret.bonus, "A") = 1
    /\ Get(ret.pts, "B") = 5 /\ Get(ret.wins, "B") = 1 /\ Get(ret.bonus, "B") = 0

\* The sum of a sequence of numbers.
Sum(f) ==
    LET s[k \in 0..Len(f)] == IF k = 0 THEN 0 ELSE s[k - 1] + f[k]
    IN  s[Len(f)]

\* The call's result for the matches alone.
MatchesOnly ==
    computePointsFromMatches(matches, << >>, seasonSoireeNumber, season, rules)

Decided(rb) == rb.buyer # "" /\ rb.winner # ""
BuyerWon(rb) == rb.buyer # "" /\ rb.winner = rb.buyer

\* The rebuys of the list that buyer p won.
WonBy(p) == { i \in 1..Len(rebuyMatches) :
                BuyerWon(rebuyMatches[i]) /\ rebuyMatches[i].buyer = p }

\* Rebuy j is processed before rebuy i: smaller createdAt, list order on a tie.
Before(j, i) ==
    \/ rebuyMatches[j].createdAt < rebuyMatches[i].createdAt
    \/ rebuyMatches[j].createdAt = rebuyMatches[i].createdAt /\ j < i

\* The decided rebuys of rebuy i's buyer processed before it in this call.
EarlierDecided(i) ==
    Cardinality({ j \in 1..Len(rebuyMatches) :
                    /\ Before(j, i)
                    /\ Decided(rebuyMatches[j])
                    /\ rebuyMatches[j].buyer = rebuyMatches[i].buyer })

\* The decided rebuys of buyer p in the season's soirees numbered below n.
PriorDecided(p, n) ==
    IF season = << >> THEN 0
    ELSE Cardinality({ x \in UNION { { << k, j >> : j \in 1..Len(season[1].soirees[k].rebuys) } :
                                      k \in 1..Len(season[1].soirees) } :
                         LET s == season[1].soirees[x[1]]
                         IN  /\ s.number < n
                             /\ Decided(s.rebuys[x[2]])
                             /\ s.rebuys[x[2]].buyer = p })

\* Over the matches alone (base), the rebuys added to each player p the points
\* worth[p] and one win per rebuy p bought and won.
RebuysAdded(base, worth) ==
    \A p \in Names :
        /\ Get(ret.pts, p) - Get(base.pts, p) = worth[p]
        /\ Get(ret.wins, p) - Get(base.wins, p) = Cardinality(WonBy(p))

\* Every rebuy its buyer won is worth rules.rebuyWinPointsS1S2 and one win.
AllRebuysAtS1S2 ==
    LET base == MatchesOnly
    IN  RebuysAdded(base, [ p \in Names |->
                              rules.rebuyWinPointsS1S2 * Cardinality(WonBy(p)) ])

\* C2: rebuy exclusivity.  Only a rebuy's buyer gets points or a win from it, and
\* only when the winner is the buyer: each player's rebuy wins are the rebuys that
\* player bought and won, a player who bought and won none has no rebuy points,
\* a rebuy without a winner (or without a buyer) leaves the whole result as it is
\* without it, and a rebuy the buyer lost differs from the same rebuy won by the
\* buyer only in the buyer's points and wins.
C2_RebuyOnlyBuyerScores ==
    PointsCalled =>
        LET base == MatchesOnly
        IN  /\ ret.bonus = base.bonus
            /\ \A p \in Names :
                   /\ Get(ret.wins, p) - Get(base.wins, p) = Cardinality(WonBy(p))
                   /\ Get(ret.pts, p) - Get(base.pts, p) >= 0
                   /\ WonBy(p) = {} => Get(ret.pts, p) = Get(base.pts, p)
            /\ \A i \in 1..Len(rebuyMatches) :
                   LET rb == rebuyMatches[i]
                       won == computePointsFromMatches(
                                  matches, [ rebuyMatches EXCEPT ![i].winner = rb.buyer ],
                                  seasonSoireeNumber, season, rules)
                   IN  /\ ~Decided(rb) =>
                             ret = computePointsFromMatches(
                                       matches, RemoveAt(rebuyMatches, i),
                                       seasonSoireeNumber, season, rules)
                       /\ Decided(rb) /\ ~BuyerWon(rb) =>
                             /\ \A p \in Names \ { rb.buyer } :
                                    /\ Get(ret.pts, p) = Get(won.pts, p)
                                    /\ Get(ret.wins, p) = Get(won.wins, p)
                             /\ Get(ret.pts, rb.buyer) <= Get(won.pts, rb.buyer)
                             /\ Get(ret.wins, rb.buyer) = Get(won.wins, rb.buyer) - 1

\* C2's case: in soiree 1 buyer A loses a rebuy to B, and buyer B has one undecided.
C2_Witness ==
    /\ PointsCalled
    /\ seasonSoireeNumber = << 1 >>
    /\ Len(rebuyMatches) = 2
    /\ rebuyMatches[1].buyer = "A" /\ rebuyMatches[1].winner = "B"
    /\ rebuyMatches[2].buyer = "B" /\ rebuyMatches[2].winner = ""
    /\ ret = MatchesOnly

\* C3: in a soiree numbered 3 or more, with the season passed, a rebuy won by its
\* buyer is worth rules.rebuyFirstWinPointsS3Plus exactly when the buyer has no
\* decided rebuy in a soiree with a smaller number and none processed earlier in
\* this soiree, and rules.rebuyNextWinPointsS3Plus otherwise.
C3_RebuyFirstThenNext ==
    PointsCalled /\ soNOf(seasonSoireeNumber) >= 3 /\ season # << >> =>
        LET base == MatchesOnly
            n == soNOf(seasonSoireeNumber)
        IN  RebuysAdded(base,
                [ p \in Names |->
                    Sum([ i \in 1..Len(rebuyMatches) |->
                            IF i \notin WonBy(p) THEN 0
                            ELSE IF PriorDecided(p, n) = 0 /\ EarlierDecided(i) = 0
                                 THEN rules.rebuyFirstWinPointsS3Plus
                                 ELSE rules.rebuyNextWinPointsS3Plus ]) ])

\* C3's case: soiree 3, B lost a rebuy in soiree 2; A and B each win one now.
C3_Witness ==
    /\ PointsCalled
    /\ seasonSoireeNumber = << 3 >>
    /\ season # << >>
    /\ PriorDecided("A", 3) = 0 /\ PriorDecided("B", 3) = 1
    /\ rules = CustomRules
    /\ WonBy("A") # {} /\ WonBy("B") # {}
    /\ Get(ret.pts, "A") - Get(MatchesOnly.pts, "A") = 4
    /\ Get(ret.pts, "B") - Get(MatchesOnly.pts, "B") = 1

\* C4: in soiree 1 or 2 every rebuy won by its buyer is worth exactly
\* rules.rebuyWinPointsS1S2 points and one win, whatever the buyer played before.
C4_RebuyS1S2 ==
    PointsCalled /\ soNOf(seasonSoireeNumber) \in { 1, 2 } => AllRebuysAtS1S2

\* C4's case: buyer A wins two rebuys in soiree 2.
C4_Witness ==
    /\ PointsCalled
    /\ seasonSoireeNumber = << 2 >>
    /\ rules = CustomRules
    /\ Cardinality(WonBy("A")) = 2
    /\ Get(ret.pts, "A") - Get(MatchesOnly.pts, "A") = 14
    /\ Get(ret.wins, "A") - Get(MatchesOnly.wins, "A") = 2

\* C5: called with soiree number 0 or undefined, or without a season (for any
\* soiree number), every buyer-won rebuy is scored with the S1/S2 rule.
C5_FallbackS1S2 ==
    PointsCalled /\ (soNOf(seasonSoireeNumber) = 0 \/ season = << >>) => AllRebuysAtS1S2

\* The part of C5 the code follows: soiree number 0 or undefined.
C5_FallbackNoNumber ==
    PointsCalled /\ soNOf(seasonSoireeNumber) = 0 => AllRebuysAtS1S2

\* The rebuy lists that hold the same rebuys as the argument, in any order.
Reorderings(seq) ==
    { [ i \in 1..Len(seq) |-> seq[f[i]] ] :
        f \in { g \in [ 1..Len(seq) -> 1..Len(seq) ] :
                  \A i, j \in 1..Len(seq) : i # j => g[i] # g[j] } }

DistinctCreatedAt ==
    \A i, j \in 1..Len(rebuyMatches) :
        i # j => rebuyMatches[i].createdAt # rebuyMatches[j].createdAt

\* C6: rebuys are processed in ascending createdAt order, ties in list order; with
\* pairwise distinct createdAt the returned maps are the same for every
\* permutation of the rebuy list.
C6_RebuyOrderByCreatedAt ==
    PointsCalled =>
        /\ \E f \in [ 1..Len(rebuyMatches) -> 1..Len(rebuyMatches) ] :
               /\ \A i, j \in 1..Len(rebuyMatches) :
                      i < j => f[i] # f[j] /\ Before(f[i], f[j])
               /\ sortedRebuys(rebuyMatches) =
                      [ i \in 1..Len(rebuyMatches) |-> rebuyMatches[f[i]] ]
        /\ DistinctCreatedAt =>
               \A perm \in Reorderings(rebuyMatches) :
                   computePointsFromMatches(matches, perm, seasonSoireeNumber,
                                            season, rules) = ret

\* C6's case: in soiree 3 the list holds A's later, lost rebuy before A's earlier,
\* won one, and the won one is scored as A's first.
C6_Witness ==
    /\ PointsCalled
    /\ seasonSoireeNumber = << 3 >>
    /\ season # << >>
    /\ PriorDecided("A", 3) = 0
    /\ rules = CustomRules
    /\ Len(rebuyMatches) = 2
    /\ rebuyMatches[1].buyer = "A" /\ rebuyMatches[1].winner = "B"
    /\ rebuyMatches[1].createdAt = 2
    /\ rebuyMatches[2].buyer = "A" /\ rebuyMatches[2].winner = "A"
    /\ rebuyMatches[2].createdAt = 1
    /\ Get(ret.pts, "A") - Get(MatchesOnly.pts, "A") = 4

RanksBefore(x, y) ==
    \/ x.pts > y.pts
    \/ x.pts = y.pts /\ x.wins > y.wins
    \/ x.pts = y.pts /\ x.wins = y.wins /\ NameRank(x.name) < NameRank(y.name)

WithEveryWinner(se, w) ==
    [ se EXCEPT !.soirees =
        [ k \in 1..Len(se.soirees) |->
            [ se.soirees[k] EXCEPT
                !.matches = [ i \in 1..Len(@) |-> [ @[i] EXCEPT !.winner = w ] ],
                !.rebuys = [ i \in 1..Len(@) |-> [ @[i] EXCEPT !.winner = w ] ] ] ] ]

\* C9: the jackpot is (the sum over all soirees of pool-A size plus pool-B size)
\* times rules.jackpotPerPlayerEUR plus (the number of rebuy records over all
\* soirees, decided or not) times rules.rebuyEUR, and stays the same when every
\* winner is erased or replaced.
C9_Jackpot ==
    called = "computeJackpotEUR" =>
        LET se == season[1]
            sizes == [ k \in 1..Len(se.soirees) |->
                         Len(se.soirees[k].pools.A) + Len(se.soirees[k].pools.B) ]
            counts == [ k \in 1..Len(se.soirees) |-> Len(se.soirees[k].rebuys) ]
        IN  /\ ret = Sum(sizes) * rules.jackpotPerPlayerEUR + Sum(counts) * rules.rebuyEUR
            /\ \A w \in { "", "A", "B" } :
                   ret = computeJackpotEUR(WithEveryWinner(se, w), rules)

\* The jackpot of two soirees with pools of different sizes, one of them holding a
\* rebuy that is not decided.
C9_Witness ==
    /\ called = "computeJackpotEUR"
    /\ Len(season[1].soirees) = 2
    /\ Len(season[1].soirees[1].pools.A) + Len(season[1].soirees[1].pools.B)
         # Len(season[1].soirees[2].pools.A) + Len(season[1].soirees[2].pools.B)
    /\ \E k \in 1..2 : \E i \in 1..Len(season[1].soirees[k].rebuys) :
           season[1].soirees[k].rebuys[i].winner = ""
    /\ ret > 0

\* The match has a winner who is one of its two contestants.
WonByContestant(found) ==
    /\ found # << >>
    /\ found[1].winner # ""
    /\ found[1].winner \in { found[1].a, found[1].b }

\* The finalist who is not the winner.
OtherFinalist(m) == IF m.winner = m.a THEN m.b ELSE m.a

\* C10: the podium is provisional whenever the FINAL has no winner; it is not
\* provisional exactly when FINAL and PFINAL both have a winner who is one of their
\* own contestants, and then it is the FINAL winner, the other finalist and the
\* PFINAL winner; a provisional podium is the first three roster players ranked by
\* the soiree's points, then wins, then name.
C10_PodiumFlag ==
    called = "currentPodium" =>
        LET se == season[1]
            cur == currentSoiree(se, selectedSoireeNumber)
            final == findPhase(cur.matches, "FINAL")
            pfinal == findPhase(cur.matches, "PFINAL")
            c == computePointsFromMatches(cur.matches, << >>, << cur.number >>,
                                          season, rules)
            row(p) == [ name |-> p, pts |-> Get(c.pts, p), wins |-> Get(c.wins, p) ]
            place(p) == 1 + Cardinality({ i \in 1..Len(se.players) :
                                            RanksBefore(row(se.players[i]), row(p)) })
            ranked(n) == IF n <= Len(se.players)
                         THEN CHOOSE p \in { se.players[i] : i \in 1..Len(se.players) } :
                                  place(p) = n
                         ELSE ""
        IN  /\ (final = << >> \/ final[1].winner = "") => ret.provisional
            /\ ~ret.provisional <=> (WonByContestant(final) /\ WonByContestant(pfinal))
            /\ ~ret.provisional =>
                   /\ ret.first = final[1].winner
                   /\ ret.second = OtherFinalist(final[1])
                   /\ ret.third = pfinal[1].winner
            /\ ret.provisional =>
                   /\ ret.first = ranked(1)
                   /\ ret.second = ranked(2)
                   /\ ret.third = ranked(3)

(***************************************************************************)
(* The planning of a soiree: poolMatchesFor4 (lines 266-291) and           *)
(* interleavePools (lines 293-301).                                        *)
(*                                                                         *)
(* The id of a match is a uid(...) token, drawn at random and used only to *)
(* find the match again in its soiree; the model tells the matches of a    *)
(* soiree apart by their position in the list, which no handler changes.   *)
(***************************************************************************)
\* const [p1, p2, p3, p4] = players: the i-th name.
nth(list, i) == IF i <= Len(list) THEN list[i] ELSE undefined

\* A match as the planning creates it: PENDING, no winner, no checkout.
NewMatch(order, phase, pl, format, a, b) ==
    [ order |-> order, phase |-> phase, status |-> "PENDING", pool |-> pl,
      format |-> format, bo |-> "BO3", maxTurns |-> 10,
      a |-> a, b |-> b, winner |-> "", checkout100 |-> FALSE ]

pairs_SeedOrder(p1, p2, p3, p4) ==
    << << p1, p2 >>, << p2, p3 >>, << p3, p4 >>,
       << p1, p3 >>, << p2, p4 >>, << p1, p4 >> >>

\* const pairs = [[p1, p2], [p3, p4], [p1, p3], [p2, p4], [p1, p4], [p2, p3]]
pairs(p1, p2, p3, p4) ==
    << << p1, p2 >>, << p3, p4 >>, << p1, p3 >>,
       << p2, p4 >>, << p1, p4 >>, << p2, p3 >> >>

\* pairs.map(([a, b], idx) => ({ ..., order: idx + 1, phase: "POULE", pool, format: 301, a, b, ... }))
matchesOfPairs(ps, pl) ==
    [ idx \in 1..Len(ps) |-> NewMatch(idx, "POULE", pl, 301, ps[idx][1], ps[idx][2]) ]

poolMatchesFor4(list, pl) ==
    matchesOfPairs(pairs(nth(list, 1), nth(list, 2), nth(list, 3), nth(list, 4)), pl)

\* for (let i = 0; i < n; i++) { if (a[i]) out.push(a[i]); if (b[i]) out.push(b[i]); }
interleaveLoop(a, b, n) ==
    LET out[i \in 0..n] ==
            IF i = 0 THEN << >>
            ELSE out[i - 1] \o (IF i <= Len(a) THEN << a[i] >> ELSE << >>)
                            \o (IF i <= Len(b) THEN << b[i] >> ELSE << >>)
    IN  out[n]

\* const n = Math.max(a.length, b.length); ...; out.map((m, idx) => ({ ...m, order: idx + 1 }))
interleavePools(a, b) ==
    Ordered(interleaveLoop(a, b, IF Len(a) >= Len(b) THEN Len(a) ELSE Len(b)))

(***************************************************************************)
(* Calls of poolMatchesFor4.                                               *)
(***************************************************************************)
MaxPool == 4

\* The lists of pairwise different names, of MaxPool names at most.
PoolLists ==
    { l \in SeqsUpTo(Names, MaxPool) :
        \A i, j \in 1..Len(l) : l[i] = l[j] => i = j }

InitPools ==
    /\ matches = << >>
    /\ rebuyMatches = << >>
    /\ seasonSoireeNumber = << >>
    /\ season = << >>
    /\ rules = STANDARD_RULES
    /\ selectedSoireeNumber = 0
    /\ poolPlayers \in PoolLists
    /\ poolName \in { "A", "B" }
    /\ now = 0
    /\ before = << >>
    /\ input = << >>
    /\ timers = << >>
    /\ called = ""
    /\ ret = NoReturn
    /\ again = NoReturn

CallPoolMatchesFor4 ==
    /\ called = ""
    /\ called' = "poolMatchesFor4"
    /\ ret' = poolMatchesFor4(poolPlayers, poolName)
    /\ UNCHANGED << args, again >>

NextPools == CallPoolMatchesFor4

SpecPools == InitPools /\ [][NextPools]_vars

(***************************************************************************)
(* Claims about the planning.                                              *)
(***************************************************************************)
\* The positions of ret where x meets y, in either order.
Meetings(x, y) ==
    { i \in 1..Len(ret) : { ret[i].a, ret[i].b } = { x, y } }

\* C17: for a pool of 4 different players p1..p4 in seed order,
\* poolMatchesFor4 returns exactly 6 matches, (p1,p2), (p3,p4), (p1,p3),
\* (p2,p4), (p1,p4), (p2,p3) in that order, so that every unordered pair of
\* pool members meets exactly once, and every match has an empty winner.
C17_RoundRobin ==
    (called = "poolMatchesFor4" /\ Len(poolPlayers) = 4) =>
        /\ Len(ret) = 6
        /\ << ret[1].a, ret[1].b >> = << poolPlayers[1], poolPlayers[2] >>
        /\ << ret[2].a, ret[2].b >> = << poolPlayers[3], poolPlayers[4] >>
        /\ << ret[3].a, ret[3].b >> = << poolPlayers[1], poolPlayers[3] >>
        /\ << ret[4].a, ret[4].b >> = << poolPlayers[2], poolPlayers[4] >>
        /\ << ret[5].a, ret[5].b >> = << poolPlayers[1], poolPlayers[4] >>
        /\ << ret[6].a, ret[6].b >> = << poolPlayers[2], poolPlayers[3] >>
        /\ \A i, j \in 1..4 : i < j =>
               Cardinality(Meetings(poolPlayers[i], poolPlayers[j])) = 1
        /\ \A i \in 1..6 : ret[i].winner = ""

C17_Witness ==
    /\ called = "poolMatchesFor4"
    /\ poolPlayers = << "D", "B", "A", "C" >>
    /\ poolName = "B"
    /\ Len(ret) = 6
    /\ << ret[6].a, ret[6].b >> = << "B", "A" >>

(***************************************************************************)
(* The application state: makeInitialState (lines 627-646) with the two    *)
(* seeded soirees (lines 513-625).                                         *)
(***************************************************************************)
\* base.map((m, idx) => ({ order: idx + 1, phase, status: m.winner ? "VALIDATED" : "PENDING", ... }))
seedMatches(base) ==
    [ idx \in 1..Len(base) |->
        [ NewMatch(idx, base[idx][1], base[idx][2], base[idx][6], base[idx][3], base[idx][4])
            EXCEPT !.winner = base[idx][5],
                   !.status = IF base[idx][5] # "" THEN "VALIDATED" ELSE "PENDING",
                   !.checkout100 = base[idx][7] ] ]

seedSoiree1 ==
    Soiree(1, << "CLÉMENT", "ANGEL", "BAPTISTE", "EMERIC" >>,
              << "JOAO", "SAMUEL", "MARVIN", "ACHIL" >>,
           seedMatches(<<
             << "POULE", "A", "CLÉMENT", "ANGEL", "ANGEL", 301, FALSE >>,
             << "POULE", "B", "JOAO", "SAMUEL", "SAMUEL", 301, FALSE >>,
             << "POULE", "A", "EMERIC", "BAPTISTE", "BAPTISTE", 301, FALSE >>,
             << "POULE", "B", "MARVIN", "ACHIL", "MARVIN", 301, FALSE >>,
             << "POULE", "A", "BAPTISTE", "CLÉMENT", "CLÉMENT", 301, FALSE >>,
             << "POULE", "B", "MARVIN", "JOAO", "MARVIN", 301, FALSE >>,
             << "POULE", "A", "ANGEL", "EMERIC", "EMERIC", 301, FALSE >>,
             << "POULE", "B", "SAMUEL", "ACHIL", "SAMUEL", 301, FALSE >>,
             << "POULE", "A", "CLÉMENT", "EMERIC", "CLÉMENT", 301, FALSE >>,
             << "POULE", "B", "JOAO", "ACHIL", "ACHIL", 301, FALSE >>,
             << "POULE", "A", "ANGEL", "BAPTISTE", "ANGEL", 301, FALSE >>,
             << "POULE", "B", "SAMUEL", "MARVIN", "SAMUEL", 301, FALSE >>,
             << "DEMI", "null", "ANGEL", "SAMUEL", "ANGEL", 301, FALSE >>,
             << "DEMI", "null", "CLÉMENT", "MARVIN", "MARVIN", 301, FALSE >>,
             << "PFINAL", "null", "CLÉMENT", "SAMUEL", "SAMUEL", 301, FALSE >>,
             << "FINAL", "null", "ANGEL", "MARVIN", "ANGEL", 501, FALSE >> >>),
           << >>)

\* The rebuys of the second soiree were created 12 hours before the page was
\* loaded, one second apart: createdAt -4, -3, -2, -1.
seedSoiree2 ==
    Soiree(2, << "ACHIL", "JOAO", "ANGEL", "MARVIN" >>,
              << "SAMUEL", "EMERIC", "BAPTISTE", "CLÉMENT" >>,
           seedMatches(<<
             << "POULE", "A", "ACHIL", "JOAO", "JOAO", 301, FALSE >>,
             << "POULE", "B", "SAMUEL", "EMERIC", "SAMUEL", 301, FALSE >>,
             << "POULE", "A", "ANGEL", "MARVIN", "ANGEL", 301, FALSE >>,
             << "POULE", "B", "BAPTISTE", "CLÉMENT", "CLÉMENT", 301, FALSE >>,
             << "POULE", "A", "ACHIL", "ANGEL", "ACHIL", 301, TRUE >>,
             << "POULE", "B", "SAMUEL", "BAPTISTE", "BAPTISTE", 301, FALSE >>,
             << "POULE", "A", "JOAO", "MARVIN", "MARVIN", 301, FALSE >>,
             << "POULE", "B", "EMERIC", "CLÉMENT", "EMERIC", 301, FALSE >>,
             << "POULE", "A", "ACHIL", "MARVIN", "MARVIN", 301, FALSE >>,
             << "POULE", "B", "SAMUEL", "CLÉMENT", "SAMUEL", 301, FALSE >>,
             << "POULE", "A", "JOAO", "ANGEL", "JOAO", 301, FALSE >>,
             << "POULE", "B", "EMERIC", "BAPTISTE", "BAPTISTE", 301, FALSE >>,
             << "DEMI", "null", "JOAO", "SAMUEL", "JOAO", 301, FALSE >>,
             << "DEMI", "null", "BAPTISTE", "MARVIN", "BAPTISTE", 301, FALSE >>,
             << "PFINAL", "null", "SAMUEL", "MARVIN", "MARVIN", 301, FALSE >>,
             << "FINAL", "null", "JOAO", "BAPTISTE", "JOAO", 501, FALSE >> >>),
           << RebuyMatch("CLÉMENT", "CLÉMENT", "EMERIC", "CLÉMENT", -4),
              RebuyMatch("ACHIL", "ACHIL", "MARVIN", "ACHIL", -3),
              RebuyMatch("ANGEL", "ANGEL", "JOAO", "ANGEL", -2),
              RebuyMatch("EMERIC", "EMERIC", "BAPTISTE", "EMERIC", -1) >>)

\* makeInitialState().season; its rules are getRules("STANDARD", ...).
makeInitialState == Season(SEASON1_PLAYERS, << seedSoiree1, seedSoiree2 >>)

(***************************************************************************)
(* runSeasonDiagnostics (lines 222-241) and startNewSoiree (lines          *)
(* 1320-1425).                                                             *)
(***************************************************************************)
\* JavaScript truthiness of a string value.
Truthy(x) == x # "" /\ x # undefined

\* The sequences of seqs, one after the other.
Flat(seqs) ==
    LET f[i \in 0..Len(seqs)] == IF i = 0 THEN << >> ELSE f[i - 1] \o seqs[i]
    IN  f[Len(seqs)]

\* The issues raised on the match m of the soiree so.
matchIssues(so, m, playersSet) ==
    (IF Truthy(m.a) /\ m.a \notin playersSet
     THEN << << so.number, m.order, "joueur A inconnu" >> >> ELSE << >>)
    \o (IF Truthy(m.b) /\ m.b \notin playersSet
        THEN << << so.number, m.order, "joueur B inconnu" >> >> ELSE << >>)
    \o (IF Truthy(m.winner) /\ m.winner # m.a /\ m.winner # m.b
        THEN << << so.number, m.order, "vainqueur incohérent" >> >> ELSE << >>)

\* The issues raised on the soiree so.
soireeIssues(so, playersSet) ==
    (IF Len(so.pools.A) = 0 /\ Len(so.pools.B) = 0
     THEN << << so.number, 0, "aucune poule définie" >> >> ELSE << >>)
    \o Flat([ i \in 1..Len(so.matches) |-> matchIssues(so, so.matches[i], playersSet) ])

runSeasonDiagnostics(se) ==
    (IF Len(se.players) < 2
     THEN << << 0, 0, "Pas assez de joueurs dans la saison." >> >> ELSE << >>)
    \o Flat([ k \in 1..Len(se.soirees) |->
                soireeIssues(se.soirees[k], { se.players[i] : i \in 1..Len(se.players) }) ])

\* shuffle(arr): Math.random decides, so every order of arr can come out.
shuffle(arr) ==
    { [ i \in 1..Len(arr) |-> arr[p[i]] ] :
        p \in { q \in [ 1..Len(arr) -> 1..Len(arr) ] :
                  \A i, j \in 1..Len(arr) : q[i] = q[j] => i = j } }

\* arr.slice(from, to), from and to counted from 0
slice(arr, from, to) ==
    SubSeq(arr, from + 1, IF to <= Len(arr) THEN to ELSE Len(arr))

\* Math.max(...season.soirees.map((s) => s.number))
maxNumber(se) ==
    CHOOSE n \in { se.soirees[k].number : k \in 1..Len(se.soirees) } :
        \A k \in 1..Len(se.soirees) : se.soirees[k].number <= n

rankedPools_Halves(ranked) ==
    [ A |-> slice(ranked, 0, 4), B |-> slice(ranked, 4, 8) ]

\* pools = { A: [ranked[0], ranked[2], ranked[4], ranked[6]].filter(Boolean),
\*           B: [ranked[1], ranked[3], ranked[5], ranked[7]].filter(Boolean) }
rankedPools(ranked) ==
    [ A |-> SelectSeq(<< nth(ranked, 1), nth(ranked, 3), nth(ranked, 5), nth(ranked, 7) >>,
                      LAMBDA x : Truthy(x)),
      B |-> SelectSeq(<< nth(ranked, 2), nth(ranked, 4), nth(ranked, 6), nth(ranked, 8) >>,
                      LAMBDA x : Truthy(x)) ]

\* const ranked = aggregateSeasonStats(season, effectiveRules).table.map((x) => x.name)
rankedNames(table) == [ i \in 1..Len(table) |-> table[i].name ]

\* if (nextNumber <= 2) { shuffled pools } else { ranked pools }; sh is what
\* shuffle(players) gave.
poolsFor(se, r, sh) ==
    IF maxNumber(se) + 1 <= 2
    THEN [ A |-> slice(sh, 0, 4), B |-> slice(sh, 4, 8) ]
    ELSE rankedPools(rankedNames(aggregateSeasonStats(se, r).table))

finals_FinalFirst(n, r) ==
    << NewMatch(n + 1, "FINAL", "null", r.defaultFinalFormat, "", ""),
       NewMatch(n + 2, "DEMI", "null", r.defaultPoolFormat, "", ""),
       NewMatch(n + 3, "DEMI", "null", r.defaultPoolFormat, "", ""),
       NewMatch(n + 4, "PFINAL", "null", r.defaultPoolFormat, "", "") >>

\* const finals = [...]: the four placeholders after the n pool matches.
finals(n, r) ==
    << NewMatch(n + 1, "DEMI", "null", r.defaultPoolFormat, "", ""),
       NewMatch(n + 2, "DEMI", "null", r.defaultPoolFormat, "", ""),
       NewMatch(n + 3, "PFINAL", "null", r.defaultPoolFormat, "", ""),
       NewMatch(n + 4, "FINAL", "null", r.defaultFinalFormat, "", "") >>

nextNumber_Same(se) == maxNumber(se)

\* const nextNumber = Math.max(...season.soirees.map((s) => s.number)) + 1
nextNumber(se) == maxNumber(se) + 1

\* const inter = interleavePools(poolA, poolB).map((m) => ({ ...m, format: effectiveRules.defaultPoolFormat }))
\* const newSoiree = { number: nextNumber, pools, matches: [...inter, ...finals], rebuys: [] }
newSoiree(number, pools, r) ==
    LET il == interleavePools(poolMatchesFor4(pools.A, "A"), poolMatchesFor4(pools.B, "B"))
    IN  Soiree(number, pools.A, pools.B,
               [ i \in 1..Len(il) |-> [ il[i] EXCEPT !.format = r.defaultPoolFormat ] ]
                   \o finals(Len(il), r),
               << >>)

\* The updater of startNewSoiree: { ...season, soirees: [...season.soirees, newSoiree] }
startNewSoiree(se, r, sh) ==
    [ se EXCEPT !.soirees = Append(@, newSoiree(nextNumber(se), poolsFor(se, r, sh), r)) ]

(***************************************************************************)
(* The handlers of the planning (lines 1248-1259, 1427-1603).  Each takes  *)
(* the number n of currentSoiree and the season se its updater is applied  *)
(* to, and gives the season the updater returns.  A match or a rebuy is    *)
(* named by its position in the list of its soiree.                        *)
(***************************************************************************)
withWinner_Unchecked(ms, matchId, winner) ==
    [ i \in 1..Len(ms) |->
        IF i # matchId THEN ms[i]
        ELSE [ ms[i] EXCEPT !.winner = normName(winner), !.status = "VALIDATED" ] ]

\* { ...m, winner: valid ? w : "", status: ..., checkout100: valid ? m.checkout100 : false }
withWinner(ms, matchId, winner) ==
    [ i \in 1..Len(ms) |->
        IF i # matchId THEN ms[i]
        ELSE IF normName(winner) # ""
                /\ (normName(winner) = normName(ms[i].a) \/ normName(winner) = normName(ms[i].b))
             THEN [ ms[i] EXCEPT !.winner = normName(winner), !.status = "VALIDATED" ]
             ELSE [ ms[i] EXCEPT !.winner = "", !.status = "PENDING",
                                 !.checkout100 = FALSE ] ]

setMatchWinner(n, se, matchId, winner) ==
    [ se EXCEPT !.soirees = [ k \in 1..Len(se.soirees) |->
        IF se.soirees[k].number # n THEN se.soirees[k]
        ELSE [ se.soirees[k] EXCEPT !.matches = withWinner(se.soirees[k].matches, matchId, winner) ] ] ]

\* s.matches.map((m) => (m.id === matchId ? { ...m, status } : m))
setMatchStatus(n, se, matchId, status) ==
    [ se EXCEPT !.soirees = [ k \in 1..Len(se.soirees) |->
        IF se.soirees[k].number # n THEN se.soirees[k]
        ELSE [ se.soirees[k] EXCEPT !.matches = [ i \in 1..Len(se.soirees[k].matches) |->
                 IF i = matchId THEN [ se.soirees[k].matches[i] EXCEPT !.status = status ]
                 ELSE se.soirees[k].matches[i] ] ] ] ]

\* if (!normName(m.winner)) return { ...m, checkout100: false };
\* return { ...m, checkout100: Boolean(val) };
withCheckout(m, val) ==
    IF normName(m.winner) = "" THEN [ m EXCEPT !.checkout100 = FALSE ]
    ELSE [ m EXCEPT !.checkout100 = val ]

setMatchCheckout100(n, se, matchId, val) ==
    [ se EXCEPT !.soirees = [ k \in 1..Len(se.soirees) |->
        IF se.soirees[k].number # n THEN se.soirees[k]
        ELSE [ se.soirees[k] EXCEPT !.matches = [ i \in 1..Len(se.soirees[k].matches) |->
                 IF i = matchId THEN withCheckout(se.soirees[k].matches[i], val)
                 ELSE se.soirees[k].matches[i] ] ] ] ]

\* { ...(s.qualifiersOverride ?? {}), ...patch }
merged(obj, patch) ==
    [ key \in DOMAIN obj \cup DOMAIN patch |->
        IF key \in DOMAIN patch THEN patch[key] ELSE obj[key] ]

setQualifiersOverride(n, se, patch) ==
    [ se EXCEPT !.soirees = [ k \in 1..Len(se.soirees) |->
        IF se.soirees[k].number # n THEN se.soirees[k]
        ELSE [ se.soirees[k] EXCEPT !.qualifiersOverride = merged(se.soirees[k].qualifiersOverride, patch) ] ] ]

\* const rb = { buyer: "", a: "", b: "", winner: "", createdAt: Date.now() }
addRebuy(n, se, t) ==
    [ se EXCEPT !.soirees = [ k \in 1..Len(se.soirees) |->
        IF se.soirees[k].number # n THEN se.soirees[k]
        ELSE [ se.soirees[k] EXCEPT !.rebuys = Append(se.soirees[k].rebuys, RebuyMatch("", "", "", "", t)) ] ] ]

\* s.rebuys.map((r) => (r.id === id ? { ...r, ...patch } : r))
updateRebuy(n, se, id, patch) ==
    [ se EXCEPT !.soirees = [ k \in 1..Len(se.soirees) |->
        IF se.soirees[k].number # n THEN se.soirees[k]
        ELSE [ se.soirees[k] EXCEPT !.rebuys = [ i \in 1..Len(se.soirees[k].rebuys) |->
                 IF i = id THEN merged(se.soirees[k].rebuys[i], patch)
                 ELSE se.soirees[k].rebuys[i] ] ] ] ]

\* s.rebuys.filter((r) => r.id !== id)
deleteRebuy(n, se, id) ==
    [ se EXCEPT !.soirees = [ k \in 1..Len(se.soirees) |->
        IF se.soirees[k].number # n THEN se.soirees[k]
        ELSE [ se.soirees[k] EXCEPT !.rebuys = [ i \in 1..(Len(se.soirees[k].rebuys) - 1) |->
                 IF i < id THEN se.soirees[k].rebuys[i]
                 ELSE se.soirees[k].rebuys[i + 1] ] ] ] ]

(***************************************************************************)
(* recalcFinalsFromPools (lines 1477-1528) and recalcFinalAndPFinal        *)
(* (lines 1530-1564).  Both read currentSoiree (cur) of the render they    *)
(* were created in, and apply their updater to the season se.              *)
(***************************************************************************)
\* b.pts - a.pts || b.wins - a.wins || b.bonus - a.bonus || a.name.localeCompare(b.name)
calcPoolCmp(a, b) ==
    IF b.pts - a.pts # 0 THEN b.pts - a.pts
    ELSE IF b.wins - a.wins # 0 THEN b.wins - a.wins
    ELSE IF b.bonus - a.bonus # 0 THEN b.bonus - a.bonus
    ELSE localeCompare(a.name, b.name)

\* players.map((p) => ({ name: p, pts: pts.get(p) ?? 0, wins: ..., bonus: ... })), sorted
calcRows(c, list) ==
    LET rows == [ i \in 1..Len(list) |->
                    [ name |-> list[i], pts |-> Get(c.pts, list[i]),
                      wins |-> Get(c.wins, list[i]), bonus |-> Get(c.bonus, list[i]) ] ]
    IN  SortWith(rows, [ p \in Pairs(rows) |-> calcPoolCmp(p[1], p[2]) ])

\* calcPool counting the rebuys of the soiree.
calcPool_WithRebuys(cur, pl, stateSeason, r) ==
    calcRows(computePointsFromMatches(
                 SelectSeq(cur.matches, LAMBDA m : m.phase = "POULE" /\ m.pool = pl),
                 cur.rebuys, << cur.number >>, << stateSeason >>, r),
             cur.pools[pl])

\* const calcPool = (pool) => { ... }
calcPool(cur, pl, stateSeason, r) ==
    calcRows(computePointsFromMatches(
                 SelectSeq(cur.matches, LAMBDA m : m.phase = "POULE" /\ m.pool = pl),
                 << >>, << cur.number >>, << stateSeason >>, r),
             cur.pools[pl])

\* ov.A1 || (A[0]?.name ?? "")
slot(ov, key, rows, i) ==
    IF key \in DOMAIN ov /\ Truthy(ov[key]) THEN ov[key] ELSE rowName(rows, i)

\* const A1 = ...; const A2 = ...; const B1 = ...; const B2 = ...
qualifiers(ov, A, B) ==
    [ A1 |-> slot(ov, "A1", A, 1), A2 |-> slot(ov, "A2", A, 2),
      B1 |-> slot(ov, "B1", B, 1), B2 |-> slot(ov, "B2", B, 2) ]

\* demisSorted.findIndex((x) => x.id === m.id), counted from 0
demiIndex(ms, i) ==
    Cardinality({ j \in 1..Len(ms) :
                    /\ ms[j].phase = "DEMI"
                    /\ \/ ms[j].order < ms[i].order
                       \/ ms[j].order = ms[i].order /\ j < i })

reseated_KeepWinner(m, a, b) == [ m EXCEPT !.a = a, !.b = b ]

\* const winner = m.winner && (m.winner === a || m.winner === b) ? m.winner : "";
\* return { ...m, a, b, winner, status: winner ? "VALIDATED" : "PENDING" };
reseated(m, a, b) ==
    IF Truthy(m.winner) /\ (m.winner = a \/ m.winner = b)
    THEN [ m EXCEPT !.a = a, !.b = b, !.status = "VALIDATED" ]
    ELSE [ m EXCEPT !.a = a, !.b = b, !.winner = "", !.status = "PENDING" ]

withDemis_A1B1(ms, q) ==
    [ i \in 1..Len(ms) |->
        IF ms[i].phase # "DEMI" THEN ms[i]
        ELSE IF demiIndex(ms, i) = 0 THEN reseated(ms[i], q.A1, q.B1)
        ELSE IF demiIndex(ms, i) = 1 THEN reseated(ms[i], q.B2, q.A2)
        ELSE ms[i] ]

\* demiIndex 0: a: A1, b: B2; demiIndex 1: a: B1, b: A2
withDemis(ms, q) ==
    [ i \in 1..Len(ms) |->
        IF ms[i].phase # "DEMI" THEN ms[i]
        ELSE IF demiIndex(ms, i) = 0 THEN reseated(ms[i], q.A1, q.B2)
        ELSE IF demiIndex(ms, i) = 1 THEN reseated(ms[i], q.B1, q.A2)
        ELSE ms[i] ]

\* cur and stateSeason are the currentSoiree and state.season the call reads,
\* se the season its updater is applied to.
recalcFinalsFromPools(cur, stateSeason, se, r) ==
    [ se EXCEPT !.soirees = [ k \in 1..Len(se.soirees) |->
        IF se.soirees[k].number # cur.number THEN se.soirees[k]
        ELSE [ se.soirees[k] EXCEPT !.matches =
                 withDemis(se.soirees[k].matches,
                           qualifiers(cur.qualifiersOverride,
                                      calcPool(cur, "A", stateSeason, r),
                                      calcPool(cur, "B", stateSeason, r))) ] ] ]

\* currentSoiree.matches.filter((m) => m.phase === "DEMI").sort((a, b) => a.order - b.order)
demisOf(cur) ==
    LET ds == SelectSeq(cur.matches, LAMBDA m : m.phase = "DEMI")
    IN  SortWith(ds, [ p \in Pairs(ds) |-> p[1].order - p[2].order ])

\* const l1 = w1 ? (w1 === d1.a ? d1.b : w1 === d1.b ? d1.a : "") : ""
loserOf(d) ==
    IF normName(d.winner) # ""
    THEN (IF normName(d.winner) = d.a THEN d.b
          ELSE IF normName(d.winner) = d.b THEN d.a ELSE "")
    ELSE ""

\* const a = x && y ? x : ""; const b = x && y ? y : ""
bothOrNone(x, y) == IF Truthy(x) /\ Truthy(y) THEN << x, y >> ELSE << "", "" >>

\* FINAL gets the winners w, PFINAL the losers l.
withFinals(ms, w, l) ==
    [ i \in 1..Len(ms) |->
        IF ms[i].phase = "FINAL" THEN reseated(ms[i], w[1], w[2])
        ELSE IF ms[i].phase = "PFINAL" THEN reseated(ms[i], l[1], l[2])
        ELSE ms[i] ]

\* if (demis.length < 2) return; otherwise the updater for d1 = demis[0] and
\* d2 = demis[1].
afterDemis(n, se, demis) ==
    IF Len(demis) < 2 THEN se
    ELSE [ se EXCEPT !.soirees = [ k \in 1..Len(se.soirees) |->
        IF se.soirees[k].number # n THEN se.soirees[k]
        ELSE [ se.soirees[k] EXCEPT !.matches =
                 withFinals(se.soirees[k].matches,
                            bothOrNone(normName(demis[1].winner), normName(demis[2].winner)),
                            bothOrNone(loserOf(demis[1]), loserOf(demis[2]))) ] ] ]

\* cur is the currentSoiree the call reads, se the season its updater is
\* applied to.
recalcFinalAndPFinal(cur, se) == afterDemis(cur.number, se, demisOf(cur))

(***************************************************************************)
(* The application: the season held by the App component, the selected     *)
(* soiree, and one action per UI handler.  A handler runs in the render    *)
(* that follows the previous event, so the season and the currentSoiree it *)
(* reads are the current ones.  A callback given to setTimeout(..., 0)     *)
(* keeps the currentSoiree of the render it was created in, and runs       *)
(* before the next UI event.                                               *)
(***************************************************************************)
\* The number of UI events followed.
MaxNow == 3

\* A name that is not a contestant of most matches.
Intruder == "EMERIC"

\* The positions of the matches of phase ph in ms.
ofPhase(ms, ph) == { i \in 1..Len(ms) : ms[i].phase = ph }

\* The matches the events are made on: the finals and the first pool match.
Clicked(ms) ==
    ofPhase(ms, "DEMI") \cup ofPhase(ms, "PFINAL") \cup ofPhase(ms, "FINAL")
        \cup { i \in ofPhase(ms, "POULE") : \A j \in ofPhase(ms, "POULE") : i <= j }

\* The values setMatchWinner is called with on m: the options of the Select
\* (placeholder, a, b) and a value the Select does not offer.
WinnerInputs(m) ==
    IF m.phase = "POULE" THEN { m.a, m.b } \ { m.winner }
    ELSE { "", m.a, m.b, Intruder } \ { m.winner }

\* The patches setQualifiersOverride is called with on the soiree s.
OverridePatches(s) ==
    { [ A1 |-> s.pools.A[i] ] : i \in 1..Len(s.pools.A) }
        \cup { [ B2 |-> s.pools.B[i] ] : i \in 1..Len(s.pools.B) \cap { 1 } }
        \cup { [ A1 |-> "", A2 |-> "", B1 |-> "", B2 |-> "" ] }

\* The patches updateRebuy is called with on the rebuy rb: the onChange of the
\* Buyer select (lines 2514-2520) and of the Vainqueur select (line 2559).
RebuyPatches(rb, roster) ==
    { IF rb.a = "" THEN [ buyer |-> roster[i], a |-> roster[i] ]
                   ELSE [ buyer |-> roster[i] ] : i \in 1..Len(roster) \cap { 1 } }
        \cup { [ winner |-> v ] : v \in { rb.a, rb.b } \ { rb.winner } }

\* allSoireeNumbers
allSoireeNumbers(se) == { se.soirees[k].number : k \in 1..Len(se.soirees) }

\* useEffect of lines 1031-1037: a selection that names no soiree becomes the
\* highest number.
selected(se, v) == IF v \in allSoireeNumbers(se) THEN v ELSE maxNumber(se)

\* What every event leaves behind: the updated season and selection, the
\* handler's name and arguments, the season it was called on.
Handled(name, in, se2, sel2) ==
    /\ called' = name
    /\ input' = in
    /\ before' = season
    /\ season' = << se2 >>
    /\ selectedSoireeNumber' = sel2
    /\ now' = now + 1
    /\ UNCHANGED << matches, rebuyMatches, seasonSoireeNumber, rules, poolPlayers,
                    poolName, ret, again >>

\* A UI event is handled once the pending callbacks have run.
Ready == season # << >> /\ now < MaxNow /\ timers = << >>

\* onChange of the soiree Select (line 1804): setSelectedSoireeNumber(Number(v))
SelectSoiree ==
    /\ Ready
    /\ \E v \in (allSoireeNumbers(season[1]) \cup { 0 }) \ { selectedSoireeNumber } :
           /\ Handled("setSelectedSoireeNumber", << v >>, season[1], selected(season[1], v))
           /\ UNCHANGED timers

\* onChange of the winner Select (lines 1868-1871, 1917-1920, 2000-2003):
\* setMatchWinner(m.id, v); if (m.phase === "DEMI") setTimeout(() => recalcFinalAndPFinal(), 0)
SetMatchWinner ==
    /\ Ready
    /\ LET cur == currentSoiree(season[1], selectedSoireeNumber)
       IN  \E matchId \in Clicked(cur.matches) :
           \E winner \in WinnerInputs(cur.matches[matchId]) :
               /\ Handled("setMatchWinner", << matchId, winner >>,
                          setMatchWinner(cur.number, season[1], matchId, winner),
                          selectedSoireeNumber)
               /\ timers' = IF cur.matches[matchId].phase = "DEMI" THEN << cur >> ELSE << >>

SetMatchStatus ==
    /\ Ready
    /\ LET cur == currentSoiree(season[1], selectedSoireeNumber)
       IN  \E matchId \in ofPhase(cur.matches, "FINAL") :
           \E status \in { "PENDING", "VALIDATED", "CONTESTED" } \ { cur.matches[matchId].status } :
               /\ Handled("setMatchStatus", << matchId, status >>,
                          setMatchStatus(cur.number, season[1], matchId, status),
                          selectedSoireeNumber)
               /\ UNCHANGED timers

SetMatchCheckout100 ==
    /\ Ready
    /\ LET cur == currentSoiree(season[1], selectedSoireeNumber)
       IN  \E matchId \in ofPhase(cur.matches, "DEMI") \cup ofPhase(cur.matches, "FINAL") :
           \E val \in BOOLEAN \ { cur.matches[matchId].checkout100 } :
               /\ Handled("setMatchCheckout100", << matchId, val >>,
                          setMatchCheckout100(cur.number, season[1], matchId, val),
                          selectedSoireeNumber)
               /\ UNCHANGED timers

SetQualifiersOverride ==
    /\ Ready
    /\ LET cur == currentSoiree(season[1], selectedSoireeNumber)
       IN  \E patch \in OverridePatches(cur) :
               /\ Handled("setQualifiersOverride", << patch >>,
                          setQualifiersOverride(cur.number, season[1], patch),
                          selectedSoireeNumber)
               /\ UNCHANGED timers

\* onClick of "Recalcul DEMIS" (line 1819); input is the currentSoiree the
\* call reads.
RecalcFinalsFromPools ==
    /\ Ready
    /\ Handled("recalcFinalsFromPools",
               << currentSoiree(season[1], selectedSoireeNumber) >>,
               recalcFinalsFromPools(currentSoiree(season[1], selectedSoireeNumber),
                                     season[1], season[1], rules),
               selectedSoireeNumber)
    /\ UNCHANGED timers

\* onClick of "Recalcul FINALES" (line 1822)
RecalcFinalAndPFinal ==
    /\ Ready
    /\ Handled("recalcFinalAndPFinal",
               << currentSoiree(season[1], selectedSoireeNumber) >>,
               recalcFinalAndPFinal(currentSoiree(season[1], selectedSoireeNumber),
                                    season[1]),
               selectedSoireeNumber)
    /\ UNCHANGED timers

\* The callback of setTimeout(() => recalcFinalAndPFinal(), 0): the call reads
\* the currentSoiree of the render the callback was created in.  input names
\* the caller after the soiree read.
DeferredRecalcFinalAndPFinal ==
    /\ season # << >>
    /\ timers # << >>
    /\ called' = "recalcFinalAndPFinal"
    /\ input' = << Head(timers), "setTimeout" >>
    /\ before' = season
    /\ season' = << recalcFinalAndPFinal(Head(timers), season[1]) >>
    /\ timers' = Tail(timers)
    /\ UNCHANGED << matches, rebuyMatches, seasonSoireeNumber, rules, selectedSoireeNumber,
                    poolPlayers, poolName, now, ret, again >>

\* The orders Math.random is followed through: every order of a short roster,
\* two of the orders of a full one.
Drawn(arr) ==
    IF Len(arr) < Len(SEASON1_PLAYERS) THEN shuffle(arr)
    ELSE { arr, [ i \in 1..Len(arr) |-> arr[Len(arr) + 1 - i] ] }

\* window.confirm is shown when there are issues; proceed is the answer, sh
\* what shuffle(players) gives if it is called.  The timer of lines 1420-1424
\* selects the new soiree.
StartNewSoiree ==
    /\ Ready
    /\ \E proceed \in (IF runSeasonDiagnostics(season[1]) # << >> THEN BOOLEAN ELSE { TRUE }) :
       \E sh \in Drawn(season[1].players) :
           /\ IF proceed
              THEN Handled("startNewSoiree", << proceed, sh >>,
                           startNewSoiree(season[1], rules, sh), maxNumber(season[1]) + 1)
              ELSE Handled("startNewSoiree", << proceed, sh >>, season[1],
                           selectedSoireeNumber)
           /\ UNCHANGED timers

AddRebuy ==
    /\ Ready
    /\ Handled("addRebuy", << >>,
               addRebuy(currentSoiree(season[1], selectedSoireeNumber).number,
                        season[1], now),
               selectedSoireeNumber)
    /\ UNCHANGED timers

\* The events are made on the last rebuy of the list.
UpdateRebuy ==
    /\ Ready
    /\ LET cur == currentSoiree(season[1], selectedSoireeNumber)
       IN  /\ Len(cur.rebuys) > 0
           /\ \E patch \in RebuyPatches(cur.rebuys[Len(cur.rebuys)], season[1].players) :
                  /\ Handled("updateRebuy", << Len(cur.rebuys), patch >>,
                             updateRebuy(cur.number, season[1], Len(cur.rebuys), patch),
                             selectedSoireeNumber)
                  /\ UNCHANGED timers

DeleteRebuy ==
    /\ Ready
    /\ LET cur == currentSoiree(season[1], selectedSoireeNumber)
       IN  /\ Len(cur.rebuys) > 0
           /\ Handled("deleteRebuy", << Len(cur.rebuys) >>,
                      deleteRebuy(cur.number, season[1], Len(cur.rebuys)),
                      selectedSoireeNumber)
           /\ UNCHANGED timers

\* The page as it is first loaded: loadState() finds nothing stored.
Init ==
    /\ matches = << >>
    /\ rebuyMatches = << >>
    /\ seasonSoireeNumber = << >>
    /\ season = << makeInitialState >>
    /\ rules = STANDARD_RULES
    /\ selectedSoireeNumber = maxNumber(makeInitialState)
    /\ poolPlayers = << >>
    /\ poolName = "A"
    /\ now = 0
    /\ before = << >>
    /\ input = << >>
    /\ timers = << >>
    /\ called = ""
    /\ ret = NoReturn
    /\ again = NoReturn

Next ==
    \/ SelectSoiree
    \/ SetMatchWinner
    \/ SetMatchStatus
    \/ SetMatchCheckout100
    \/ SetQualifiersOverride
    \/ RecalcFinalsFromPools
    \/ RecalcFinalAndPFinal
    \/ DeferredRecalcFinalAndPFinal
    \/ StartNewSoiree
    \/ AddRebuy
    \/ UpdateRebuy
    \/ DeleteRebuy

Spec == Init /\ [][Next]_vars

(***************************************************************************)
(* sanitizeState (lines 648-806).  What it is given is what JSON.parse     *)
(* returned: << >> stands for a value that is no object or has no season,  *)
(* otherwise the value is the season of the parsed object, whose records   *)
(* may lack fields.  Of the state returned the model keeps the season; the *)
(* rules profile of an object without system is STANDARD.                  *)
(***************************************************************************)
\* obj?.key
field(obj, key) == IF key \in DOMAIN obj THEN obj[key] ELSE undefined

\* obj?.key ?? [], and obj?.key for an object that is undefined when << >>
listOf(obj, key) == IF key \in DOMAIN obj THEN obj[key] ELSE << >>

\* The elements of arr at the positions of keep, in the order of arr.
pick(arr, keep) ==
    [ k \in 1..Cardinality(keep) |->
        arr[CHOOSE i \in keep : Cardinality({ j \in keep : j < i }) = k - 1] ]

\* uniq(arr.map(normName)).filter(isNonEmptyString)
uniqNames(arr) ==
    pick([ i \in 1..Len(arr) |-> normName(arr[i]) ],
         { i \in 1..Len(arr) :
             /\ normName(arr[i]) # ""
             /\ \A j \in 1..(i - 1) : normName(arr[j]) # normName(arr[i]) })

\* arr.map(normName).filter(Boolean)
namesOf(arr) ==
    pick([ i \in 1..Len(arr) |-> normName(arr[i]) ],
         { i \in 1..Len(arr) : normName(arr[i]) # "" })

\* obj?.key ?? dflt
fieldOr(obj, key, dflt) == IF key \in DOMAIN obj THEN obj[key] ELSE dflt

\* clampInt(n, min, max), for n an integer
clampInt(n, min, max) == IF n < min THEN min ELSE IF n > max THEN max ELSE n

\* The match sanitizeState makes of m, the idx-th of its list (lines 661-679).
sanitizeMatch(m, idx) ==
    [ order |-> clampInt(fieldOr(m, "order", idx), 1, 9999),
      phase |-> IF field(m, "phase") \in Phases THEN m.phase ELSE "POULE",
      status |-> IF field(m, "status") \in { "PENDING", "VALIDATED", "CONTESTED" }
                 THEN m.status
                 ELSE IF normName(field(m, "winner")) # "" THEN "VALIDATED" ELSE "PENDING",
      pool |-> IF field(m, "pool") \in { "A", "B" } THEN m.pool ELSE "null",
      format |-> IF fieldOr(m, "format", 301) = 501 THEN 501 ELSE 301,
      bo |-> IF field(m, "bo") \in { "BO1", "BO3", "BO5", "SEC" } THEN m.bo ELSE "BO3",
      maxTurns |-> clampInt(fieldOr(m, "maxTurns", 10), 1, 50),
      a |-> normName(field(m, "a")),
      b |-> normName(field(m, "b")),
      winner |-> normName(field(m, "winner")),
      checkout100 |-> fieldOr(m, "checkout100", FALSE) ]

\* The rebuy sanitizeState makes of r (lines 681-688); t is Date.now().
sanitizeRebuy(r, t) ==
    [ buyer |-> normName(field(r, "buyer")), a |-> normName(field(r, "a")),
      b |-> normName(field(r, "b")), winner |-> normName(field(r, "winner")),
      createdAt |-> fieldOr(r, "createdAt", t) ]

\* matches.sort((a, b) => a.order - b.order)
sortedByOrder(ms) == SortWith(ms, [ p \in Pairs(ms) |-> p[1].order - p[2].order ])

\* qualifiersOverride of lines 698-706; << >> is undefined.
sanitizeOverride(ov) ==
    IF ov = << >> THEN << >>
    ELSE [ A1 |-> normName(field(ov, "A1")), A2 |-> normName(field(ov, "A2")),
           B1 |-> normName(field(ov, "B1")), B2 |-> normName(field(ov, "B2")) ]

\* The soiree sanitizeState makes of s, the i-th of the season (lines 657-708).
sanitizeSoiree(s, i, t) ==
    [ number |-> clampInt(fieldOr(s, "number", i), 1, 999),
      pools |-> [ A |-> namesOf(listOf(listOf(s, "pools"), "A")),
                  B |-> namesOf(listOf(listOf(s, "pools"), "B")) ],
      matches |-> sortedByOrder([ idx \in 1..Len(listOf(s, "matches")) |->
                                    sanitizeMatch(s.matches[idx], idx) ]),
      rebuys |-> sortedRebuys([ k \in 1..Len(listOf(s, "rebuys")) |->
                                  sanitizeRebuy(s.rebuys[k], t) ]),
      qualifiersOverride |-> sanitizeOverride(listOf(s, "qualifiersOverride")) ]

\* [...s.pools.A, ...s.pools.B, ...s.matches.flatMap(...), ...s.rebuys.flatMap(...)]
namesIn(s) ==
    s.pools.A \o s.pools.B
      \o Flat([ i \in 1..Len(s.matches) |->
                  << s.matches[i].a, s.matches[i].b, s.matches[i].winner >> ])
      \o Flat([ k \in 1..Len(s.rebuys) |->
                  << s.rebuys[k].buyer, s.rebuys[k].a, s.rebuys[k].b, s.rebuys[k].winner >> ])

\* const inferredPlayers = players.length ? players : uniq(soirees.flatMap(...)).filter(...)
inferredPlayers(players, soirees) ==
    IF Len(players) > 0 THEN players
    ELSE uniqNames(Flat([ k \in 1..Len(soirees) |-> namesIn(soirees[k]) ]))

\* seasonSan, with line 750 applied.
seasonSan(players, soirees) ==
    Season(inferredPlayers(players, soirees),
           IF Len(soirees) = 0 THEN << seedSoiree1 >> ELSE soirees)

sanitizeState(raw, t) ==
    IF raw = << >> THEN makeInitialState
    ELSE seasonSan(uniqNames(listOf(raw, "players")),
                   [ i \in 1..Len(listOf(raw, "soirees")) |->
                       sanitizeSoiree(raw.soirees[i], i, t) ])

(***************************************************************************)
(* sanitizeState called on stored values: records with missing fields,     *)
(* untrimmed names, winners that are no contestant, lists out of order.    *)
(***************************************************************************)
RawMatches ==
    << [ order |-> 2, phase |-> "POULE", pool |-> "A", status |-> "VALIDATED",
         format |-> 501, a |-> " A", b |-> "B ", winner |-> "C", checkout100 |-> TRUE ],
       [ a |-> "A", b |-> "B", winner |-> "B " ],
       [ order |-> 1, phase |-> "FINAL", a |-> "A", b |-> "B", winner |-> " " ],
       [ order |-> 3, phase |-> "DEMI", status |-> "CONTESTED", a |-> "C", b |-> "D",
         winner |-> "E" ] >>

RawRebuys ==
    << [ buyer |-> "A", a |-> "A", b |-> "B ", winner |-> "A", createdAt |-> 2 ],
       [ buyer |-> " A", a |-> "B", b |-> "A", winner |-> "B", createdAt |-> 1 ],
       [ buyer |-> "C" ] >>

RawSoirees ==
    { [ matches |-> << RawMatches[1], RawMatches[3] >> ],
      [ number |-> 1, pools |-> [ A |-> << " A", "B " >>, B |-> << "C", " " >> ],
        matches |-> << RawMatches[2] >>,
        rebuys |-> << RawRebuys[1], RawRebuys[2] >> ],
      [ number |-> 1000, matches |-> << RawMatches[4], RawMatches[2] >>,
        rebuys |-> << RawRebuys[3] >>,
        qualifiersOverride |-> [ A1 |-> " A" ] ],
      [ number |-> 0, pools |-> [ A |-> << "A" >> ], matches |-> << >> ],
      seedSoiree2 }

RawStates ==
    { << >> }
      \cup { [ soirees |-> ss ] : ss \in SeqsUpTo(RawSoirees, MaxSoirees) }
      \cup { [ players |-> ps, soirees |-> ss ] :
               ps \in { << "B ", "A", "B", " " >>, << >> },
               ss \in SeqsUpTo(RawSoirees, MaxSoirees) }

InitSanitize ==
    /\ matches = << >>
    /\ rebuyMatches = << >>
    /\ seasonSoireeNumber = << >>
    /\ season = << >>
    /\ rules = STANDARD_RULES
    /\ selectedSoireeNumber = 0
    /\ poolPlayers = << >>
    /\ poolName = "A"
    /\ now = 0
    /\ before = << >>
    /\ input \in { << raw >> : raw \in RawStates }
    /\ timers = << >>
    /\ called = ""
    /\ ret = NoReturn
    /\ again = NoReturn

CallSanitizeState ==
    /\ called = ""
    /\ called' = "sanitizeState"
    /\ season' = << sanitizeState(input[1], now) >>
    /\ UNCHANGED << matches, rebuyMatches, seasonSoireeNumber, rules, selectedSoireeNumber,
                    poolPlayers, poolName, now, before, input, timers, ret, again >>

NextSanitize == CallSanitizeState

SpecSanitize == InitSanitize /\ [][NextSanitize]_vars

(***************************************************************************)
(* JSON.stringify and JSON.parse (lines 828-836, 1287, 1302).  A text is   *)
(* << v >> when JSON.parse gives the value v, << >> when it throws.        *)
(* stringify leaves out the properties whose value is undefined.           *)
(***************************************************************************)
stringifyMatch(m) ==
    [ key \in DOMAIN m \ { k \in { "a", "b", "winner" } : m[k] = undefined } |-> m[key] ]

stringifySoiree(s) ==
    [ key \in DOMAIN s \ (IF s.qualifiersOverride = << >>
                          THEN { "qualifiersOverride" } ELSE { }) |->
        IF key = "matches"
        THEN [ i \in 1..Len(s.matches) |-> stringifyMatch(s.matches[i]) ]
        ELSE s[key] ]

\* JSON.stringify(state), the season of it.
stringify(se) ==
    << [ players |-> se.players,
         soirees |-> [ k \in 1..Len(se.soirees) |-> stringifySoiree(se.soirees[k]) ] ] >>

\* loadState: sanitizeState(JSON.parse(raw)) of what saveState stored.
reloaded(se, t) == sanitizeState(stringify(se)[1], t)

(***************************************************************************)
(* importSeasonFromText (lines 1300-1314).                                 *)
(***************************************************************************)
\* The texts pasted: one that does not parse, values that are no state, the
\* export of the state, two files written by hand.
ImportTexts(se) ==
    { << >>, << << >> >>, stringify(se),
      << [ players |-> << "B ", "A", "B" >>,
           soirees |-> << [ number |-> 1,
                            pools |-> [ A |-> << " A", "B " >>, B |-> << "C", " " >> ],
                            matches |-> << RawMatches[2], RawMatches[4] >>,
                            rebuys |-> << RawRebuys[1], RawRebuys[2] >> ] >> ] >>,
      << [ soirees |-> << >> ] >> }

ImportSeasonFromText ==
    /\ Ready
    /\ \E text \in ImportTexts(season[1]) :
           IF text = << >>
           THEN Handled("importSeasonFromText", << text >>, season[1], selectedSoireeNumber)
           ELSE Handled("importSeasonFromText", << text >>, sanitizeState(text[1], now),
                        maxNumber(sanitizeState(text[1], now)))
    /\ UNCHANGED timers

NextImport == Next \/ ImportSeasonFromText

SpecImport == Init /\ [][NextImport]_vars

(***************************************************************************)
(* The application started on a stored state: loadState (lines 808-826)    *)
(* gives sanitizeState (lines 648-806) what localStorage holds.            *)
(***************************************************************************)
\* Seasons sanitizeState returns for a stored season without soirees, whose
\* players are [], ["A"] or ["A", "B", "C"]: line 750 gives it seedSoiree1().
LoadedSeasons ==
    { Season(<< >>, << seedSoiree1 >>),
      Season(<< "A" >>, << seedSoiree1 >>),
      Season(<< "A", "B", "C" >>, << seedSoiree1 >>) }

InitLoaded ==
    /\ matches = << >>
    /\ rebuyMatches = << >>
    /\ seasonSoireeNumber = << >>
    /\ \E se \in LoadedSeasons :
           /\ season = << se >>
           /\ selectedSoireeNumber = maxNumber(se)
    /\ rules = STANDARD_RULES
    /\ poolPlayers = << >>
    /\ poolName = "A"
    /\ now = 0
    /\ before = << >>
    /\ input = << >>
    /\ timers = << >>
    /\ called = ""
    /\ ret = NoReturn
    /\ again = NoReturn

SpecLoaded == InitLoaded /\ [][Next]_vars

(***************************************************************************)
(* computeWinStreaks (lines 433-479).                                      *)
(***************************************************************************)
\* map.set(key, value)
put(map, key, value) ==
    [ k \in DOMAIN map \cup { key } |-> IF k = key THEN value ELSE map[k] ]

\* const setBest = (p) => best.set(p, Math.max(best.get(p) ?? 0, streak.get(p) ?? 0))
setBest(st, p) ==
    [ st EXCEPT !.best = put(st.best, p,
                             IF Get(st.best, p) >= Get(st.streak, p)
                             THEN Get(st.best, p) ELSE Get(st.streak, p)) ]

\* streak.set(p, v); setBest(p)
setStreak(st, p, v) == setBest([ st EXCEPT !.streak = put(st.streak, p, v) ], p)

applyResult(st, a0, b0, winner0) ==
    LET a == normName(a0)
        b == normName(b0)
        winner == normName(winner0)
        loser == IF winner = a THEN b ELSE IF winner = b THEN a ELSE ""
    IN  IF a = "" \/ b = "" \/ winner = "" \/ loser = "" THEN st
        ELSE setStreak(setStreak(st, winner, Get(st.streak, winner) + 1), loser, 0)

\* for (const m of sortedMatches) applyResult(m.a, m.b, m.winner)
streakMatches(st, ms) ==
    LET after[i \in 0..Len(ms)] ==
            IF i = 0 THEN st
            ELSE applyResult(after[i - 1], ms[i].a, ms[i].b, ms[i].winner)
    IN  after[Len(ms)]

\* The body of the loop over sortedRebuys (lines 466-473).
streakRebuy(st, r) ==
    IF normName(r.winner) # "" /\ normName(r.winner) = normName(r.buyer)
    THEN applyResult(st, r.buyer,
                     IF normName(r.a) = normName(r.buyer) THEN r.b ELSE r.a, r.winner)
    ELSE IF normName(r.winner) # "" THEN setStreak(st, normName(r.buyer), 0)
    ELSE st

streakRebuys(st, rbs) ==
    LET after[k \in 0..Len(rbs)] ==
            IF k = 0 THEN st ELSE streakRebuy(after[k - 1], rbs[k])
    IN  after[Len(rbs)]

\* for (const s of season.soirees) { ... }
streakSoirees(st, soirees) ==
    LET after[k \in 0..Len(soirees)] ==
            IF k = 0 THEN st
            ELSE streakRebuys(streakMatches(after[k - 1], sortedByOrder(soirees[k].matches)),
                              sortedRebuys(soirees[k].rebuys))
    IN  after[Len(soirees)]

\* (a, b) => b.best - a.best || a.player.localeCompare(b.player)
streakCmp(a, b) ==
    IF b.best - a.best # 0 THEN b.best - a.best ELSE localeCompare(a.player, b.player)

\* allPlayers.map((p) => ({ player: p, best: best.get(p) ?? 0 })), sorted
streakOut(st, players) ==
    LET out == [ i \in 1..Len(players) |->
                   [ player |-> players[i], best |-> Get(st.best, players[i]) ] ]
    IN  SortWith(out, [ p \in Pairs(out) |-> streakCmp(p[1], p[2]) ])

\* streak and best after lines 439-443.
streakStart(players) ==
    [ streak |-> [ p \in { players[i] : i \in 1..Len(players) } |-> 0 ],
      best |-> [ p \in { players[i] : i \in 1..Len(players) } |-> 0 ] ]

computeWinStreaks(se) ==
    streakOut(streakSoirees(streakStart(se.players), se.soirees), se.players)

(***************************************************************************)
(* computeHeadToHead (lines 481-500).                                      *)
(***************************************************************************)
\* index.get(name) of new Map(players.map((p, i) => [p, i])), from 1; 0 when
\* the map has no such key.
indexOf(players, name) ==
    LET at == { i \in 1..Len(players) : players[i] = name }
    IN  IF at = { } THEN 0 ELSE CHOOSE i \in at : \A j \in at : j <= i

\* The body of the loop over the matches with the cell of the loser's row.
h2hMatch_LoserRow(matrix, players, m) ==
    LET w == normName(m.winner)
        a == normName(m.a)
        b == normName(m.b)
        loser == IF w = a THEN b ELSE IF w = b THEN a ELSE ""
    IN  IF w = "" \/ indexOf(players, a) = 0 \/ indexOf(players, b) = 0
           \/ indexOf(players, w) = 0 \/ loser = ""
        THEN matrix
        ELSE [ matrix EXCEPT ![indexOf(players, loser)][indexOf(players, w)] = @ + 1 ]

\* The body of the loop over the matches (lines 486-496).
h2hMatch(matrix, players, m) ==
    LET w == normName(m.winner)
        a == normName(m.a)
        b == normName(m.b)
        loser == IF w = a THEN b ELSE IF w = b THEN a ELSE ""
    IN  IF w = "" \/ indexOf(players, a) = 0 \/ indexOf(players, b) = 0
           \/ indexOf(players, w) = 0 \/ loser = ""
        THEN matrix
        ELSE [ matrix EXCEPT ![indexOf(players, w)][indexOf(players, loser)] = @ + 1 ]

\* for (const s of season.soirees) for (const m of s.matches) { ... }
h2hLoop(matrix, players, ms) ==
    LET after[i \in 0..Len(ms)] ==
            IF i = 0 THEN matrix ELSE h2hMatch(after[i - 1], players, ms[i])
    IN  after[Len(ms)]

computeHeadToHead(se) ==
    [ players |-> se.players,
      matrix |-> h2hLoop([ i \in 1..Len(se.players) |-> [ j \in 1..Len(se.players) |-> 0 ] ],
                         se.players,
                         Flat([ k \in 1..Len(se.soirees) |-> se.soirees[k].matches ])) ]

(***************************************************************************)
(* Calls of computeWinStreaks and computeHeadToHead.                       *)
(***************************************************************************)
\* Soirees as SoireeContents gives them, and three more: a rebuy won by its
\* buyer against nobody, a match whose winner is no contestant, a match list
\* out of order.
HistorySoirees ==
    SeasonSoireeKinds
      \cup { Soiree(n, c[1], c[2], c[3], c[4]) :
               n \in 1..2,
               c \in { << << "A", "B" >>, << "C" >>,
                          << CoreMatch(1, "POULE", "A", "A", "B", "A", FALSE) >>,
                          << RebuyMatch("A", "A", "", "A", 1) >> >>,
                       << << "A", "B" >>, << "C" >>,
                          << CoreMatch(1, "POULE", "A", "A", "B", "C", FALSE),
                             CoreMatch(2, "POULE", "A", "C", "A", "C", FALSE) >>,
                          << >> >>,
                       << << "A", "B" >>, << "C" >>,
                          << CoreMatch(2, "POULE", "A", "A", "B", "B", FALSE),
                             CoreMatch(1, "POULE", "A", "B", "A", "B", FALSE) >>,
                          << RebuyMatch("B", "B", "A", "A", 2),
                             RebuyMatch("B", "B", "A", "B", 1) >> >> } }

InitHistory ==
    /\ matches = << >>
    /\ rebuyMatches = << >>
    /\ seasonSoireeNumber = << >>
    /\ season \in { << Season(pl, ss) >> :
                      pl \in Rosters, ss \in SeqsUpTo(HistorySoirees, MaxSoirees) }
    /\ rules = STANDARD_RULES
    /\ selectedSoireeNumber = 0
    /\ poolPlayers = << >>
    /\ poolName = "A"
    /\ now = 0
    /\ before = << >>
    /\ input = << >>
    /\ timers = << >>
    /\ called = ""
    /\ ret = NoReturn
    /\ again = NoReturn

CallComputeWinStreaks ==
    /\ called = ""
    /\ called' = "computeWinStreaks"
    /\ ret' = computeWinStreaks(season[1])
    /\ UNCHANGED << args, again >>

CallComputeHeadToHead ==
    /\ called = ""
    /\ called' = "computeHeadToHead"
    /\ ret' = computeHeadToHead(season[1])
    /\ UNCHANGED << args, again >>

NextHistory == CallComputeWinStreaks \/ CallComputeHeadToHead

SpecHistory == InitHistory /\ [][NextHistory]_vars

(***************************************************************************)
(* Claims about the planning handlers.                                     *)
(***************************************************************************)
\* The soiree the handlers act on now, and the one the last handler acted on.
Cur == currentSoiree(season[1], selectedSoireeNumber)
Was == currentSoiree(before[1], selectedSoireeNumber)

\* Every match of the season, with the number of its soiree.
AllMatches ==
    UNION { { << season[1].soirees[k].number, season[1].soirees[k].matches[i] >> :
                i \in 1..Len(season[1].soirees[k].matches) } :
            k \in 1..Len(season[1].soirees) }

\* C11: in every state reached from the initial state through the handlers,
\* the winner of every match is empty or is its a or its b, and is non-empty
\* only when a and b are both non-empty; and a setMatchWinner call with a
\* value that is neither a nor b of the match leaves its winner empty.
C11_WinnerIsContestant ==
    season # << >> =>
        /\ \A sm \in AllMatches :
               /\ sm[2].winner \in { "", sm[2].a, sm[2].b }
               /\ sm[2].winner # "" => (sm[2].a # "" /\ sm[2].b # "")
        /\ called = "setMatchWinner" =>
               (normName(input[2]) \notin { Was.matches[input[1]].a, Was.matches[input[1]].b }
                    => Cur.matches[input[1]].winner = "")

C11_Witness ==
    /\ called = "setMatchWinner"
    /\ input[2] = Intruder
    /\ Was.matches[input[1]].winner \in { Was.matches[input[1]].a, Was.matches[input[1]].b } \ { "" }
    /\ Intruder \notin { Was.matches[input[1]].a, Was.matches[input[1]].b }
    /\ Cur.matches[input[1]].winner = ""
    /\ Cur.matches[input[1]].a = Was.matches[input[1]].a

\* C12: in every reachable state a match has checkout100 = TRUE only if its
\* winner is non-empty.
C12_CheckoutOnlyWithWinner ==
    season # << >> =>
        \A sm \in AllMatches : sm[2].checkout100 => sm[2].winner # ""

\* C12, the part about setMatchCheckout100 alone: on a match without a winner
\* the call leaves the flag FALSE.
C12_CheckboxNeedsWinner ==
    called = "setMatchCheckout100" =>
        (Was.matches[input[1]].winner = "" => ~Cur.matches[input[1]].checkout100)

\* What the pool matches of the soiree so give the player p of the pool pl:
\* the POULE matches of that pool p has won.
PoolScore(so, pl, p) ==
    LET won == { i \in 1..Len(so.matches) :
                   /\ so.matches[i].phase = "POULE"
                   /\ so.matches[i].pool = pl
                   /\ so.matches[i].winner = p }
    IN  [ name |-> p,
          pts |-> Sum([ i \in 1..Len(so.matches) |->
                          IF i \in won THEN ClaimedMatchPoints(so.matches[i], rules) ELSE 0 ]),
          wins |-> Cardinality(won),
          bonus |-> Cardinality({ i \in won : so.matches[i].checkout100 }) ]

\* Row x stands before row y in a pool: points, wins, bonus descending, then
\* name ascending.
PoolBefore(x, y) ==
    \/ x.pts > y.pts
    \/ x.pts = y.pts /\ x.wins > y.wins
    \/ x.pts = y.pts /\ x.wins = y.wins /\ x.bonus > y.bonus
    \/ x.pts = y.pts /\ x.wins = y.wins /\ x.bonus = y.bonus
         /\ NameRank(x.name) < NameRank(y.name)

\* The player ranked i-th in the pool pl of so, "" if the pool is smaller.
PoolRanked(so, pl, i) ==
    LET members == { so.pools[pl][j] : j \in 1..Len(so.pools[pl]) }
        at == { p \in members :
                  Cardinality({ q \in members :
                                  PoolBefore(PoolScore(so, pl, q), PoolScore(so, pl, p)) })
                    = i - 1 }
    IN  IF at = { } THEN "" ELSE CHOOSE p \in at : TRUE

\* The qualifier of a slot: the override if one is set, else the ranked player.
ClaimedSlot(so, key, pl, i) ==
    IF key \in DOMAIN so.qualifiersOverride /\ so.qualifiersOverride[key] # ""
    THEN so.qualifiersOverride[key]
    ELSE PoolRanked(so, pl, i)

\* The i-th DEMI of so by order.
Demi(so, i) ==
    LET ds == { j \in 1..Len(so.matches) : so.matches[j].phase = "DEMI" }
    IN  so.matches[CHOOSE j \in ds :
                     Cardinality({ k \in ds : so.matches[k].order < so.matches[j].order })
                       = i - 1]

\* C13: after recalcFinalsFromPools the first DEMI (by order) is A1 vs B2 and
\* the second is B1 vs A2, each slot being the non-empty qualifiersOverride
\* value of the slot if one is set and otherwise the player ranked first
\* (resp. second) in the pool's standing computed from that pool's POULE
\* matches only, by points, wins, bonus descending, then name ascending.
C13_DemisFromPools ==
    called = "recalcFinalsFromPools" =>
        /\ Demi(Cur, 1).a = ClaimedSlot(input[1], "A1", "A", 1)
        /\ Demi(Cur, 1).b = ClaimedSlot(input[1], "B2", "B", 2)
        /\ Demi(Cur, 2).a = ClaimedSlot(input[1], "B1", "B", 1)
        /\ Demi(Cur, 2).b = ClaimedSlot(input[1], "A2", "A", 2)

\* An override decides A1, the standings decide the other slots, and the
\* first DEMI changes.
C13_Witness ==
    /\ called = "recalcFinalsFromPools"
    /\ "A1" \in DOMAIN input[1].qualifiersOverride
    /\ input[1].qualifiersOverride["A1"] \notin { "", PoolRanked(input[1], "A", 1) }
    /\ Demi(Cur, 1).a = input[1].qualifiersOverride["A1"]
    /\ Demi(Was, 1).a # Demi(Cur, 1).a
    /\ Demi(Cur, 1).b = PoolRanked(input[1], "B", 2)
    /\ Demi(Cur, 1).b # ""

\* The standings alone decide the four slots, after a pool result has changed.
C13_WitnessStandings ==
    /\ called = "recalcFinalsFromPools"
    /\ \A key \in DOMAIN input[1].qualifiersOverride : input[1].qualifiersOverride[key] = ""
    /\ << Demi(Was, 1).a, Demi(Was, 1).b, Demi(Was, 2).a, Demi(Was, 2).b >>
         # << Demi(Cur, 1).a, Demi(Cur, 1).b, Demi(Cur, 2).a, Demi(Cur, 2).b >>
    /\ Demi(Cur, 2).b # ""

\* The match of phase ph of so.
TheMatch(so, ph) ==
    so.matches[CHOOSE j \in 1..Len(so.matches) : so.matches[j].phase = ph]

\* The contestant of the semi-final d who is not its winner.
NonWinner(d) == IF d.winner = d.a THEN d.b ELSE d.a

\* FINAL and PFINAL of so are what the semi-finals d1 and d2 make them: the
\* two winners and the two losers if both are decided, empty otherwise.
FinalsFollow(so, d1, d2) ==
    IF d1.winner # "" /\ d2.winner # ""
    THEN /\ << TheMatch(so, "FINAL").a, TheMatch(so, "FINAL").b >>
              = << d1.winner, d2.winner >>
         /\ << TheMatch(so, "PFINAL").a, TheMatch(so, "PFINAL").b >>
              = << NonWinner(d1), NonWinner(d2) >>
    ELSE /\ << TheMatch(so, "FINAL").a, TheMatch(so, "FINAL").b >> = << "", "" >>
         /\ << TheMatch(so, "PFINAL").a, TheMatch(so, "PFINAL").b >> = << "", "" >>

\* C14: after recalcFinalAndPFinal on a soiree with two DEMI matches, if both
\* semis have a winner FINAL's contestants are the two semi winners and
\* PFINAL's the two semi losers; if either semi is undecided FINAL and PFINAL
\* both have empty contestants.
C14_FinalsFromSemis ==
    called = "recalcFinalAndPFinal" => FinalsFollow(Cur, Demi(Cur, 1), Demi(Cur, 2))

\* C14 for the semi-finals as the call read them: the currentSoiree of the
\* render the call was created in.
C14_FinalsFromSemisRead ==
    called = "recalcFinalAndPFinal" =>
        FinalsFollow(Cur, Demi(input[1], 1), Demi(input[1], 2))

\* C14 for the calls made by the button, which read the soiree as it is.
C14_FinalsFromSemisButton ==
    (called = "recalcFinalAndPFinal" /\ input[1] = Was) =>
        FinalsFollow(Cur, Demi(Cur, 1), Demi(Cur, 2))

Recalculated == called \in { "recalcFinalsFromPools", "recalcFinalAndPFinal" }

\* C15: recalcFinalsFromPools and recalcFinalAndPFinal keep the recorded winner
\* of a DEMI, FINAL or PFINAL match if and only if it is one of the match's
\* contestants after the call, and empty it otherwise; they never put another
\* player in its place and never change the winner of a POULE match.
C15_WinnerKeptIffContestant ==
    Recalculated =>
        /\ Len(Cur.matches) = Len(Was.matches)
        /\ \A i \in 1..Len(Was.matches) :
               /\ Cur.matches[i].winner \in { "", Was.matches[i].winner }
               /\ Cur.matches[i].phase = "POULE"
                    => Cur.matches[i].winner = Was.matches[i].winner
               /\ Was.matches[i].winner # ""
                    => (Cur.matches[i].winner = Was.matches[i].winner
                          <=> Was.matches[i].winner \in { Cur.matches[i].a, Cur.matches[i].b })

\* One call keeps the winner of a match whose contestants it changes and
\* empties the winner of another.
C15_Witness ==
    /\ Recalculated
    /\ \E i \in 1..Len(Was.matches) :
           /\ Was.matches[i].winner # ""
           /\ Cur.matches[i].winner = Was.matches[i].winner
           /\ << Cur.matches[i].a, Cur.matches[i].b >> # << Was.matches[i].a, Was.matches[i].b >>
    /\ \E j \in 1..Len(Was.matches) :
           /\ Was.matches[j].winner # ""
           /\ Cur.matches[j].winner = ""
           /\ Was.matches[j].winner \notin { Cur.matches[j].a, Cur.matches[j].b }

(***************************************************************************)
(* Claims about startNewSoiree.                                            *)
(***************************************************************************)
\* startNewSoiree has just added a soiree.
Started == called = "startNewSoiree" /\ input[1]

\* The soiree it has added.
Created == season[1].soirees[Len(season[1].soirees)]

\* The names of the season table of the season it was called on, in rank order.
RankedBefore ==
    [ i \in 1..Len(before[1].players) |-> aggregateSeasonStats(before[1], rules).table[i].name ]

\* C16: when startNewSoiree creates a soiree numbered 3 or more, pool A is the
\* players at ranks 1, 3, 5, 7 and pool B the players at ranks 2, 4, 6, 8 of
\* the season table, and whatever the shuffle gives the pools are the same.
C16_SeededByRank ==
    (Started /\ Created.number >= 3) =>
        /\ Created.pools.A = << RankedBefore[1], RankedBefore[3], RankedBefore[5], RankedBefore[7] >>
        /\ Created.pools.B = << RankedBefore[2], RankedBefore[4], RankedBefore[6], RankedBefore[8] >>
        /\ \A sh \in Drawn(before[1].players) :
               startNewSoiree(before[1], rules, sh).soirees[Len(season[1].soirees)].pools
                 = Created.pools

\* A soiree numbered 3 or more is created while the shuffle gives another
\* order than the roster's, after results have moved the ranking.
C16_Witness ==
    /\ Started
    /\ Created.number >= 3
    /\ input[2] # before[1].players
    /\ Created.pools.A[1] = RankedBefore[1]
    /\ RankedBefore # [ i \in 1..Len(makeInitialState.players) |->
                          aggregateSeasonStats(makeInitialState, rules).table[i].name ]

\* The contestants of the matches of ms at the positions first, first + 2, ...
EveryOther(ms, first) ==
    [ i \in 1..((Len(ms) - first) \div 2 + 1) |->
        << ms[first + 2 * (i - 1)].a, ms[first + 2 * (i - 1)].b >> ]

\* The contestants of a pool's round-robin list.
RoundRobin(list, pl) ==
    [ i \in 1..Len(poolMatchesFor4(list, pl)) |->
        << poolMatchesFor4(list, pl)[i].a, poolMatchesFor4(list, pl)[i].b >> ]

\* The pool matches alternate between pool A and pool B, starting with pool A,
\* each pool's matches in the order of its round-robin list.
Interleaved(so, pms) ==
    /\ \A i \in 1..Len(pms) :
           /\ pms[i].phase = "POULE"
           /\ pms[i].pool = IF i % 2 = 1 THEN "A" ELSE "B"
    /\ EveryOther(pms, 1) = RoundRobin(so.pools.A, "A")
    /\ EveryOther(pms, 2) = RoundRobin(so.pools.B, "B")

\* The order values of so are 1..n, each used once.
DenseOrders(so) ==
    /\ \A i \in 1..Len(so.matches) : so.matches[i].order \in 1..Len(so.matches)
    /\ \A i, j \in 1..Len(so.matches) : so.matches[i].order = so.matches[j].order => i = j

\* C18: the match list of a soiree created by startNewSoiree is the pool-A and
\* pool-B round-robin lists interleaved one for one starting with pool A, then
\* four placeholders DEMI, DEMI, PFINAL, FINAL with empty a, b and winner; the
\* order values are 1..n in the order of the list; FINAL has format
\* rules.defaultFinalFormat and every other match rules.defaultPoolFormat.
\* The order values of every soiree stay 1..n, each used once, after any
\* later operation.
C18_MatchList ==
    /\ Started =>
         LET ms == Created.matches
             n == Len(Created.matches)
         IN  /\ n = 16
             /\ Interleaved(Created, SubSeq(ms, 1, n - 4))
             /\ << ms[n - 3].phase, ms[n - 2].phase, ms[n - 1].phase, ms[n].phase >>
                  = << "DEMI", "DEMI", "PFINAL", "FINAL" >>
             /\ \A i \in (n - 3)..n : << ms[i].a, ms[i].b, ms[i].winner >> = << "", "", "" >>
             /\ \A i \in 1..n :
                    /\ ms[i].order = i
                    /\ ms[i].format = IF ms[i].phase = "FINAL" THEN rules.defaultFinalFormat
                                      ELSE rules.defaultPoolFormat
    /\ season # << >> =>
         \A k \in 1..Len(season[1].soirees) : DenseOrders(season[1].soirees[k])

\* A soiree has been created and then worked on: its semi-finals are seated
\* and its first pool match is decided.
C18_Witness ==
    /\ season # << >>
    /\ Len(season[1].soirees) = 3
    /\ called = "recalcFinalsFromPools"
    /\ Cur.number = 3
    /\ Cur.matches[1].winner # ""
    /\ Cur.matches[13].a # ""
    /\ Cur.matches[16].phase = "FINAL"

\* The numbers of the soirees of the season se.
NumbersOf(se) == { se.soirees[k].number : k \in 1..Len(se.soirees) }

\* C20: a soiree created by startNewSoiree gets the highest number among the
\* existing soirees plus one; after any sequence of startNewSoiree calls and
\* other operations from the initial state the numbers of the soirees are
\* pairwise distinct and consecutive, and existing soirees keep their number.
C20_Numbers ==
    season # << >> =>
        /\ \A j, k \in 1..Len(season[1].soirees) :
               season[1].soirees[j].number = season[1].soirees[k].number => j = k
        /\ NumbersOf(season[1]) = 1..Len(season[1].soirees)
        /\ before # << >> =>
               /\ Len(season[1].soirees) >= Len(before[1].soirees)
               /\ \A k \in 1..Len(before[1].soirees) :
                      season[1].soirees[k].number = before[1].soirees[k].number
        /\ Started =>
               /\ Len(season[1].soirees) = Len(before[1].soirees) + 1
               /\ Created.number - 1 \in NumbersOf(before[1])
               /\ \A n \in NumbersOf(before[1]) : n <= Created.number - 1

\* A second soiree is created after another operation has acted on the first
\* one created.
C20_Witness ==
    /\ Started
    /\ Created.number = 4
    /\ \E i \in 1..16 : season[1].soirees[3].matches[i].winner # ""

\* C19: startNewSoiree on a season with fewer than 2 players is rejected:
\* whatever the user answers to the prompt, no soiree is added and the season
\* is left unchanged.
C19_RejectedUnderTwoPlayers ==
    (called = "startNewSoiree" /\ Len(before[1].players) < 2) => season = before

\* C19, the answer "cancel": the season is left unchanged.
C19_CancelledLeavesSeason ==
    (called = "startNewSoiree" /\ ~input[1]) => season = before

(***************************************************************************)
(* Claims about stored states.                                             *)
(***************************************************************************)
\* C21: after sanitizeState every core match's winner is either the empty
\* string or equal to that match's a or b; a stored match whose winner is
\* neither contestant comes out with an empty winner (and status PENDING).
C21_WinnerSanitized ==
    called = "sanitizeState" =>
        \A km \in AllMatches : km[2].winner \in { "", km[2].a, km[2].b }

\* C22: importSeasonFromText given a text that is not a valid serialized
\* state (JSON that does not parse, or JSON that is not a state object with a
\* season) leaves the application state unchanged.
C22_InvalidImportLeavesState ==
    (called = "importSeasonFromText" /\ input[1] \in { << >>, << << >> >> })
        => season = before

\* C22, the text that does not parse: the state is left unchanged.
C22_UnparseableLeavesState ==
    (called = "importSeasonFromText" /\ input[1] = << >>) => season = before

\* The contestants and winners of the bracket matches of every soiree.
Bracket(se) ==
    [ k \in 1..Len(se.soirees) |->
        { << se.soirees[k].matches[i].phase, se.soirees[k].matches[i].order,
             se.soirees[k].matches[i].a, se.soirees[k].matches[i].b,
             se.soirees[k].matches[i].winner >> :
            i \in { j \in 1..Len(se.soirees[k].matches) :
                      se.soirees[k].matches[j].phase # "POULE" } } ]

\* What is computed from a season: the season table, the points of every
\* soiree, the jackpot, the podium of every soiree, the bracket.
Computed(se, r) ==
    [ table |-> aggregateSeasonStats(se, r).table,
      points |-> [ k \in 1..Len(se.soirees) |->
                     computePointsFromMatches(se.soirees[k].matches, se.soirees[k].rebuys,
                                              << se.soirees[k].number >>, << se >>, r) ],
      jackpot |-> computeJackpotEUR(se, r),
      podium |-> [ k \in 1..Len(se.soirees) |-> podiumFromSoiree(se.soirees[k], se, r) ],
      bracket |-> Bracket(se) ]

\* C23: for every state reachable through the UI operations, serialising it
\* to JSON and loading it back through sanitizeState yields a state whose
\* season table, per-soiree points, jackpot, podium and bracket contestants
\* and winners equal those of the original state.
C23_RoundTrip ==
    called # "" => Computed(reloaded(season[1], now), rules) = Computed(season[1], rules)

\* The season se with every qualifiersOverride in the form sanitizeState gives it.
Normalised(se) ==
    [ se EXCEPT !.soirees =
        [ k \in 1..Len(se.soirees) |->
            [ se.soirees[k] EXCEPT !.qualifiersOverride = sanitizeOverride(@) ] ] ]

\* C23, the states reached from the initial state by the planning handlers:
\* the state reloaded is the state stored, but for the form of the overrides,
\* which nothing computed reads.
C23_ReloadedIsStored ==
    (called # "" /\ season[1].players # << >>)
        => reloaded(season[1], now) = Normalised(season[1])

\* The season se with rbs as the rebuy list of every soiree.
WithRebuys(se, rbs) ==
    [ se EXCEPT !.soirees = [ k \in 1..Len(se.soirees) |->
                                [ se.soirees[k] EXCEPT !.rebuys = rbs ] ] ]

\* Rebuy lists to compare with: none, and for the player listed last in each
\* pool of so three rebuys won by that player.
RebuyLists(so) ==
    { << >> }
      \cup { [ k \in 1..3 |-> RebuyMatch(p, p, "", p, k) ] :
               p \in { so.pools[pl][Len(so.pools[pl])] :
                         pl \in { x \in { "A", "B" } : Len(so.pools[x]) > 0 } } }

\* The contestants of the bracket matches of the soiree number n.
Seats(se, n) ==
    LET so == currentSoiree(se, n)
    IN  { << so.matches[i].phase, so.matches[i].order, so.matches[i].a, so.matches[i].b >> :
            i \in { j \in 1..Len(so.matches) : so.matches[j].phase # "POULE" } }

\* The pool standings and the seats the two recalculations give are the same
\* on the seasons se and se2, for the soiree number n.
SameQualification(se, se2, n, r) ==
    /\ calcPool(currentSoiree(se2, n), "A", se2, r) = calcPool(currentSoiree(se, n), "A", se, r)
    /\ calcPool(currentSoiree(se2, n), "B", se2, r) = calcPool(currentSoiree(se, n), "B", se, r)
    /\ Seats(recalcFinalsFromPools(currentSoiree(se2, n), se2, se2, r), n)
         = Seats(recalcFinalsFromPools(currentSoiree(se, n), se, se, r), n)
    /\ Seats(recalcFinalAndPFinal(currentSoiree(se2, n), se2), n)
         = Seats(recalcFinalAndPFinal(currentSoiree(se, n), se), n)

\* C26: rebuys never feed bracket qualification: for two states that differ
\* only in their rebuy lists, the pool standings and the DEMI, FINAL and
\* PFINAL contestants that recalcFinalsFromPools and recalcFinalAndPFinal
\* produce are the same.  The two states are the ones before and after a rebuy
\* handler, and, after a recalculation, the state and the same state with
\* other rebuy lists.
C26_RebuysApart ==
    /\ called \in { "addRebuy", "updateRebuy", "deleteRebuy" } =>
           SameQualification(before[1], season[1], Cur.number, rules)
    /\ called \in { "recalcFinalsFromPools", "recalcFinalAndPFinal" } =>
           \A rbs \in RebuyLists(Cur) :
               SameQualification(season[1], WithRebuys(season[1], rbs), Cur.number, rules)

\* The selected soiree has rebuys won by players of its pools, and the
\* recalculation has just given the DEMIs new contestants.
C26_Witness ==
    /\ called = "recalcFinalsFromPools"
    /\ Seats(season[1], Cur.number) # Seats(before[1], Cur.number)
    /\ \E j \in 1..Len(Cur.rebuys) :
           /\ Cur.rebuys[j].winner = Cur.rebuys[j].buyer
           /\ \E i \in 1..Len(Cur.pools.A) : Cur.pools.A[i] = Cur.rebuys[j].buyer

\* The number of DEMI matches of the soiree so.
Demis(so) == Cardinality({ i \in 1..Len(so.matches) : so.matches[i].phase = "DEMI" })

\* C27: when the selected soiree has fewer than 2 DEMI matches,
\* recalcFinalsFromPools and recalcFinalAndPFinal each leave every match of
\* the season (contestants, winner, status, checkout flag) unchanged.
C27_NoOpUnderTwoDemis ==
    (called \in { "recalcFinalsFromPools", "recalcFinalAndPFinal" } /\ Demis(input[1]) < 2)
        => season = before

\* C27 for recalcFinalAndPFinal, and for recalcFinalsFromPools on a soiree
\* without any DEMI: the season is left unchanged.
C27_NoOpFinals ==
    (\/ called = "recalcFinalAndPFinal" /\ Demis(input[1]) < 2
     \/ called = "recalcFinalsFromPools" /\ Demis(input[1]) = 0)
        => season = before

\* C28: selecting a DEMI winner runs setMatchWinner and then a deferred
\* recalcFinalAndPFinal; once the deferred call has run, FINAL and PFINAL
\* reflect the semi results including the winner just selected: if both semis
\* are decided FINAL holds the two current semi winners and PFINAL the two
\* current semi losers, and the winners as they were before the selection are
\* not used.
C28_DeferredFinalsCurrent ==
    (called = "recalcFinalAndPFinal" /\ Len(input) = 2) =>
        /\ FinalsFollow(Cur, Demi(Cur, 1), Demi(Cur, 2))
        /\ \A i \in 1..2 : Demi(input[1], i).winner = Demi(Cur, i).winner

\* C29: for a soiree whose pools each hold at least 2 players, after
\* recalcFinalsFromPools under any qualifiersOverride value reachable through
\* setQualifiersOverride, the four semi-final contestants A1, B2, B1, A2 are
\* pairwise distinct players.
C29_SemiContestantsDistinct ==
    (called = "recalcFinalsFromPools"
       /\ Len(input[1].pools.A) >= 2 /\ Len(input[1].pools.B) >= 2) =>
        Cardinality({ Demi(Cur, 1).a, Demi(Cur, 1).b, Demi(Cur, 2).a, Demi(Cur, 2).b }) = 4

\* C29 without an override in force: the four contestants are distinct.
C29_DistinctWithoutOverride ==
    (called = "recalcFinalsFromPools"
       /\ Len(input[1].pools.A) >= 2 /\ Len(input[1].pools.B) >= 2
       /\ \A key \in DOMAIN input[1].qualifiersOverride :
              input[1].qualifiersOverride[key] = "") =>
        Cardinality({ Demi(Cur, 1).a, Demi(Cur, 1).b, Demi(Cur, 2).a, Demi(Cur, 2).b }) = 4

\* The members of the pool pl of the soiree so.
Members(so, pl) == { so.pools[pl][i] : i \in 1..Len(so.pools[pl]) }

\* Pools A and B of so are disjoint subsets of roster.
PoolsApart(so, roster) ==
    /\ Members(so, "A") \cap Members(so, "B") = { }
    /\ Members(so, "A") \cup Members(so, "B") \subseteq { roster[i] : i \in 1..Len(roster) }

\* C30: for every roster of at least 2 players (rosters of fewer than 8
\* players included) and every soiree number, each POULE match created by
\* startNewSoiree has two non-empty, distinct contestants that are both
\* members of the pool the match is tagged with, and pools A and B are
\* disjoint subsets of the roster.
C30_PoolMatchesWellFormed ==
    (Started /\ Len(before[1].players) >= 2) =>
        /\ \A i \in ofPhase(Created.matches, "POULE") :
               /\ Truthy(Created.matches[i].a)
               /\ Truthy(Created.matches[i].b)
               /\ Created.matches[i].a # Created.matches[i].b
               /\ Created.matches[i].pool \in { "A", "B" }
               /\ { Created.matches[i].a, Created.matches[i].b }
                    \subseteq Members(Created, Created.matches[i].pool)
        /\ PoolsApart(Created, before[1].players)

\* C30, the pools alone: they are disjoint subsets of the roster.
C30_PoolsApart ==
    (Started /\ Len(before[1].players) >= 2) => PoolsApart(Created, before[1].players)

\* C30 for the roster of 8 players.
C30_PoolMatchesOfEight ==
    (Started /\ Len(before[1].players) = 8) =>
        \A i \in ofPhase(Created.matches, "POULE") :
            /\ Truthy(Created.matches[i].a)
            /\ Truthy(Created.matches[i].b)
            /\ Created.matches[i].a # Created.matches[i].b
            /\ { Created.matches[i].a, Created.matches[i].b }
                 \subseteq Members(Created, Created.matches[i].pool)

(***************************************************************************)
(* Claims about the season history.                                        *)
(***************************************************************************)
\* The results of the soirees in the order given: of each soiree the core
\* matches by ascending order, then the rebuys by ascending createdAt.
Results(soirees) ==
    Flat([ k \in 1..Len(soirees) |->
             LET ms == sortedByOrder(soirees[k].matches)
                 rbs == sortedRebuys(soirees[k].rebuys)
             IN  [ i \in 1..Len(ms) |->
                     [ rebuy |-> FALSE, a |-> ms[i].a, b |-> ms[i].b,
                       winner |-> ms[i].winner ] ]
                 \o [ j \in 1..Len(rbs) |->
                        [ rebuy |-> TRUE, a |-> rbs[j].buyer,
                          b |-> IF rbs[j].a = rbs[j].buyer THEN rbs[j].b ELSE rbs[j].a,
                          winner |-> rbs[j].winner ] ] ])

\* The streak of player p after the result e, c being the streak before it.  A
\* core match counts when its winner is one of its two contestants; in a rebuy
\* a is the buyer and b the opponent, who loses when the buyer wins.  With
\* opponent set, a rebuy won by its buyer counts only when it names an opponent.
StreakAfter(p, c, e, opponent) ==
    IF e.rebuy
    THEN IF e.winner = "" THEN c
         ELSE IF e.winner = e.a
              THEN IF opponent /\ e.b = "" THEN c
                   ELSE IF p = e.a THEN c + 1 ELSE IF p = e.b THEN 0 ELSE c
              ELSE IF p = e.a THEN 0 ELSE c
    ELSE IF e.a = "" \/ e.b = "" \/ e.winner = "" \/ e.winner \notin { e.a, e.b } THEN c
         ELSE IF p = e.winner THEN c + 1 ELSE IF p \in { e.a, e.b } THEN 0 ELSE c

\* The longest run of consecutive wins of p over the results es.
LongestRun(p, es, opponent) ==
    LET run[i \in 0..Len(es)] ==
            IF i = 0 THEN [ cur |-> 0, best |-> 0 ]
            ELSE LET c == StreakAfter(p, run[i - 1].cur, es[i], opponent)
                 IN  [ cur |-> c, best |-> IF c > run[i - 1].best THEN c ELSE run[i - 1].best ]
    IN  run[Len(es)].best

\* C24: computeWinStreaks reports for each roster player the longest run of
\* consecutive wins over the season's results in chronological order: soirees
\* by ascending number, within a soiree core matches by ascending order and
\* then rebuys by ascending createdAt.  A lost core match, or a rebuy lost by
\* its buyer, resets the player's streak; a rebuy won by its buyer extends the
\* buyer's streak by one.
C24_LongestRunChronological ==
    called = "computeWinStreaks" =>
        /\ Len(ret) = Len(season[1].players)
        /\ \A i \in 1..Len(ret) :
               /\ ret[i].player \in { season[1].players[j] : j \in 1..Len(season[1].players) }
               /\ ret[i].best = LongestRun(ret[i].player,
                                           Results(soireesByNumber(season[1].soirees)), FALSE)

\* C24, as the code has it: the soirees are taken in the order of the list,
\* and a rebuy won by its buyer counts only when it names an opponent.
C24_LongestRunInListOrder ==
    called = "computeWinStreaks" =>
        /\ Len(ret) = Len(season[1].players)
        /\ \A i \in 1..Len(ret) :
               /\ ret[i].player \in { season[1].players[j] : j \in 1..Len(season[1].players) }
               /\ ret[i].best = LongestRun(ret[i].player, Results(season[1].soirees), TRUE)

\* C24 on the seasons whose soirees are listed by ascending number.
C24_LongestRunAscendingSeasons ==
    (called = "computeWinStreaks"
       /\ soireesByNumber(season[1].soirees) = season[1].soirees) =>
        \A i \in 1..Len(ret) :
            ret[i].best = LongestRun(ret[i].player, Results(season[1].soirees), FALSE)

\* The core matches of se, each with the number of its soiree and its place.
CoreMatches(se) ==
    UNION { { << k, i, se.soirees[k].matches[i] >> : i \in 1..Len(se.soirees[k].matches) } :
              k \in 1..Len(se.soirees) }

\* The core match m is validly decided between roster players.
ValidlyDecided(m, roster) ==
    /\ m.winner # ""
    /\ m.winner \in { m.a, m.b }
    /\ { m.a, m.b } \subseteq roster

\* The core matches x won against y.
Beat(se, x, y) ==
    { km \in CoreMatches(se) :
        /\ ValidlyDecided(km[3], { se.players[i] : i \in 1..Len(se.players) })
        /\ km[3].winner = x
        /\ { km[3].a, km[3].b } = { x, y } }

\* The sum of the entries of a square matrix.
Total(matrix) ==
    LET row[i \in 0..Len(matrix)] ==
            IF i = 0 THEN 0
            ELSE row[i - 1]
                 + (LET col[j \in 0..Len(matrix[i])] ==
                            IF j = 0 THEN 0 ELSE col[j - 1] + matrix[i][j]
                    IN  col[Len(matrix[i])])
    IN  row[Len(matrix)]

\* C25: computeHeadToHead returns a square matrix indexed by roster order in
\* which matrix[i][j] is the number of core matches, over all soirees, that
\* roster player i won against roster player j; rebuys contribute nothing, and
\* a match whose a, b or winner is not in the roster, or whose winner is
\* neither a nor b, contributes nothing.  Hence the sum of all entries equals
\* the number of validly decided core matches between roster players.
C25_HeadToHead ==
    called = "computeHeadToHead" =>
        LET players == season[1].players
        IN  /\ ret.players = players
            /\ DOMAIN ret.matrix = 1..Len(players)
            /\ \A i \in 1..Len(players) :
                   /\ DOMAIN ret.matrix[i] = 1..Len(players)
                   /\ \A j \in 1..Len(players) :
                          ret.matrix[i][j]
                            = Cardinality(Beat(season[1], players[i], players[j]))
            /\ Total(ret.matrix)
                 = Cardinality({ km \in CoreMatches(season[1]) :
                                   ValidlyDecided(km[3], { players[i] : i \in 1..Len(players) }) })

\* A season with a match counted, a match between a roster player and
\* somebody else, a match whose winner is no contestant, and a rebuy won.
C25_Witness ==
    /\ called = "computeHeadToHead"
    /\ Total(ret.matrix) >= 2
    /\ LET roster == { season[1].players[i] : i \in 1..Len(season[1].players) }
       IN  /\ \E km \in CoreMatches(season[1]) :
                  km[3].winner \in roster /\ ~({ km[3].a, km[3].b } \subseteq roster)
           /\ \E km \in CoreMatches(season[1]) :
                  km[3].winner \in roster \ { km[3].a, km[3].b }
    /\ \E k \in 1..Len(season[1].soirees) :
       \E j \in 1..Len(season[1].soirees[k].rebuys) :
           season[1].soirees[k].rebuys[j].winner # ""

====
